---- MODULE Spec2Model ----
(***************************************************************************)
(* Verification model of askit-llm-agents: the bounded message history     *)
(* (src/src/message_lib.rs), the Messages-for-Prompt window                *)
(* (src/src/message.rs), the process-wide tool registry (src/src/tool.rs)  *)
(* and the tool dispatch of the chat agents (src/src/ollama.rs,            *)
(* src/src/openai.rs).                                                     *)
(*                                                                         *)
(* An Option<T> of the source is a sequence of length 0 (None) or 1        *)
(* (Some(v)).                                                              *)
(***************************************************************************)
EXTENDS Integers, Sequences, FiniteSets, TLC

VARIABLES
    history,        \* MessageHistory under test: messages, max_size, system_message, include_system
    lastArg,        \* argument of the operation just applied when it was push, else None
    prevId,         \* id of the message pushed by the operation before that, when it was a push
    pushed,         \* SpecPush: every message pushed since construction, in order
    lastCall,       \* SpecResize: the operation just applied, its argument and the history it was applied to
    mfp_value,      \* MessagesForPromptAgent: the value received on the messages pin
    mfp_max_size,   \* MessagesForPromptAgent: the max_size config
    mfp_pc,         \* MessagesForPromptAgent: "ready" before process, "done" after
    mfp_out,        \* MessagesForPromptAgent: the value put on the messages pin, if any
    tools,          \* ToolRegistry.tools: tool name -> its ToolEntry (0: no entry)
    entries,        \* every ToolEntry created so far: its name and the holder of its AsyncMutex
    calls,          \* call_tool invocations: where each caller is, and on which entry
    registry_log,   \* SpecRegistry: the register and unregister operations so far, in order
    call_tools,     \* tool::call_tools: the call under way, its resp_messages and what it returned
    chat_agent,     \* chat agent: which of the two it is, "ollama" or "openai"
    chat_history,   \* chat agent: self.history
    chat_preamble_included,  \* OllamaChatAgent: self.preamble_included
    chat_pc,        \* chat agent: where process() is
    chat_turn,      \* chat agent: the locals of the process() call for the last message input
    chat_period,    \* chat agent: what was received and seeded since creation or the last reset
    chat_stream,    \* chat agent: the locals of the streaming branch of the loop
    chat_out,       \* chat agent: the last values put on the message and history pins
    chat_calls,     \* chat agent: the tool_calls of the response being dispatched
    resp_messages,  \* tool::call_tools: the tool messages collected so far
    chat_requests,  \* chat agent: provider requests issued so far
    chat_result,    \* chat agent: how the last process() ended
    wire_in,        \* conversions: the Message, MessageHistory or AgentValue a conversion starts from
    wire_value,     \* conversions: the AgentValue on the wire, if any
    wire_out,       \* conversions: the Result of converting wire_value back, if any
    mha_history,    \* MessageHistoryAgent: self.history
    mha_preamble_included,  \* MessageHistoryAgent: self.preamble_included
    mha_out,        \* MessageHistoryAgent: what the last process() put on its pins
    mha_period,     \* MessageHistoryAgent: what was pushed and seeded since creation or the last reset
    listed,         \* tool listing: who listed last, the patterns text given, and the result
    pre_preamble,   \* PreambleAgent: self.preamble
    pre_prepended,  \* PreambleAgent: self.prepended
    pre_last,       \* PreambleAgent: the last input handled and what was put on the messages pin
    msgs_max_size,  \* MessagesAgent: the max_size config
    msgs_messages,  \* MessagesAgent: the messages config, where the messages are stored
    msgs_last,      \* MessagesAgent: the last input handled, the output, and what came in since the last reset
    flow_agent,     \* StreamToolAgent: self.name, started or not, who holds its lock, self.pending
    flow_calls,     \* call_tool invocations on the agent's tool: where each is, its context, its channel
    tool_in         \* StreamToolAgent: the arguments put on tool_in that the flow has not answered yet

histVars == <<history, lastArg, prevId, pushed, lastCall>>

mfpVars == <<mfp_value, mfp_max_size, mfp_pc, mfp_out>>

toolVars == <<tools, entries, calls, registry_log, call_tools>>

chatVars == <<chat_agent, chat_history, chat_preamble_included, chat_pc, chat_turn,
              chat_period, chat_stream, chat_out, chat_calls, resp_messages,
              chat_requests, chat_result>>

wireVars == <<wire_in, wire_value, wire_out>>

mhaVars == <<mha_history, mha_preamble_included, mha_out, mha_period>>

listVars == <<listed>>

msgVars == <<pre_preamble, pre_prepended, pre_last, msgs_max_size, msgs_messages, msgs_last>>

flowVars == <<flow_agent, flow_calls, tool_in>>

vars == <<histVars, mfpVars, toolVars, chatVars, wireVars, mhaVars, listVars, msgVars, flowVars>>

----------------------------------------------------------------------------
(* Bounds *)

\* longest stored message list the model lets an unbounded history grow to
MaxLen == 3
\* largest max_size given to new / set_max_size
MaxSize == 2
\* longest preamble given to set_preamble
MaxPreamble == 2

----------------------------------------------------------------------------
(* Option, Message, ToolCall  (message_lib.rs) *)

None == <<>>

Some(v) == <<v>>

is_some(o) == Len(o) > 0

Last(s) == s[Len(s)]

\* Result::Ok
Ok(v) == [ok |-> TRUE, value |-> v]

\* Result::Err
Err(e) == [ok |-> FALSE, err |-> e]

\* AgentError::Other(message)
Other(message) == [kind |-> "Other", message |-> message]

\* Message::new
Message(role, content) ==
    [id |-> None, role |-> role, content |-> content, thinking |-> "",
     tool_calls |-> None, tool_name |-> None]

\* Message::tool
ToolMessage(tool_name, content) ==
    [Message("tool", content) EXCEPT !.tool_name = Some(tool_name)]

\* ToolCall { function: ToolCallFunction { name, parameters, id } }
ToolCall(name, parameters) ==
    [name |-> name, parameters |-> parameters, id |-> None]

\* serde_json::Value, as far as tool-call parameters use it: a string or an
\* object of such values (fields: key -> value)
json_string(s) == [json |-> "string", str |-> s]

json_object(fields) == [json |-> "object", fields |-> fields]

\* The messages the operations of the history are driven with: plain turns of
\* each role, a turn carrying a thinking trace, and streamed turns that share
\* or do not share an id.
HistMsgs ==
    { Message("system", "Be terse."),
      Message("system", "Be kind."),
      Message("user", "Hi"),
      [Message("assistant", "Good!") EXCEPT !.thinking = "hm"],
      [Message("user", "Hello") EXCEPT !.id = Some("m1")],
      [Message("assistant", "Hello, updated!") EXCEPT
          !.id = Some("m1"), !.thinking = "hm",
          !.tool_calls = Some(<<ToolCall("get_time", json_object(<<>>))>>)],
      [Message("assistant", "Hello") EXCEPT !.id = Some("m2")] }

PreambleMsgs ==
    { Message("system", "Be kind."), Message("user", "Hi") }

SeqsUpTo(S, n) == UNION { [1..k -> S] : k \in 0..n }

----------------------------------------------------------------------------
(* MessageHistory  (message_lib.rs) *)

Min(S) == CHOOSE x \in S : \A y \in S : x <= y

\* set_max_size that truncates without scanning the evicted prefix
set_max_size_no_scan(h, size) ==
    LET len == Len(h.messages)
    IN  IF size > 0 /\ len > size
        THEN [h EXCEPT !.max_size = size,
                       !.messages = SubSeq(h.messages, len - size + 1, len)]
        ELSE [h EXCEPT !.max_size = size]

\* set_max_size that retains an evicted system message whatever
\* include_system is
set_max_size_retain_always(h, size) ==
    LET len == Len(h.messages)
        cut == len - size
        sys == { i \in 1..cut : h.messages[i].role = "system" }
    IN  IF size > 0 /\ len > size
        THEN [h EXCEPT
                !.max_size = size,
                !.system_message =
                    IF sys # {} THEN Some(h.messages[Min(sys)]) ELSE h.system_message,
                !.messages = SubSeq(h.messages, cut + 1, len)]
        ELSE [h EXCEPT !.max_size = size]

\* MessageHistory::set_max_size
set_max_size(h, size) ==
    LET len == Len(h.messages)
        cut == len - size
        sys == { i \in 1..cut : h.messages[i].role = "system" }
    IN  IF size > 0 /\ len > size
        THEN [h EXCEPT
                !.max_size = size,
                !.system_message =
                    IF h.include_system /\ sys # {}
                    THEN Some(h.messages[Min(sys)])
                    ELSE h.system_message,
                !.messages = SubSeq(h.messages, cut + 1, len)]
        ELSE [h EXCEPT !.max_size = size]

\* MessageHistory::new
new(msgs, max_size) ==
    set_max_size([messages |-> msgs, max_size |-> 0,
                  system_message |-> None, include_system |-> FALSE], max_size)

\* MessageHistory::set_include_system
set_include_system(h, include) == [h EXCEPT !.include_system = include]

\* set_preamble that leaves the retained system message in place
set_preamble_keep_system(h, preamble) ==
    IF preamble = <<>>
    THEN h
    ELSE set_max_size([h EXCEPT !.messages = preamble \o h.messages], h.max_size)

\* MessageHistory::set_preamble
set_preamble(h, preamble) ==
    IF preamble = <<>>
    THEN h
    ELSE set_max_size([h EXCEPT !.messages = preamble \o h.messages,
                                !.system_message = None], h.max_size)

\* push without the eviction at capacity
push_no_evict(h, message) ==
    LET len == Len(h.messages)
    IN  IF /\ is_some(message.id)
           /\ len > 0
           /\ is_some(h.messages[len].id)
           /\ h.messages[len].id = message.id
        THEN [h EXCEPT !.messages[len].content = message.content,
                       !.messages[len].thinking = message.thinking,
                       !.messages[len].tool_calls = message.tool_calls]
        ELSE [h EXCEPT !.messages = Append(h.messages, message)]

\* push without the coalescing update of the last message
push_no_coalesce(h, message) ==
    LET len == Len(h.messages)
    IN  IF h.max_size > 0 /\ len >= h.max_size
        THEN [h EXCEPT
                !.system_message =
                    IF h.messages[1].role = "system"
                    THEN Some(h.messages[1]) ELSE h.system_message,
                !.messages = Append(Tail(h.messages), message)]
        ELSE [h EXCEPT !.messages = Append(h.messages, message)]

\* push that drops an evicted system message instead of retaining it
push_forget_system(h, message) ==
    LET len == Len(h.messages)
    IN  IF /\ is_some(message.id)
           /\ len > 0
           /\ is_some(h.messages[len].id)
           /\ h.messages[len].id = message.id
        THEN [h EXCEPT !.messages[len].content = message.content,
                       !.messages[len].thinking = message.thinking,
                       !.messages[len].tool_calls = message.tool_calls]
        ELSE IF h.max_size > 0 /\ len >= h.max_size
        THEN [h EXCEPT !.messages = Append(Tail(h.messages), message)]
        ELSE [h EXCEPT !.messages = Append(h.messages, message)]

\* push whose coalescing update puts the whole new message in the last place
push_replace_last(h, message) ==
    LET len == Len(h.messages)
    IN  IF /\ is_some(message.id)
           /\ len > 0
           /\ is_some(h.messages[len].id)
           /\ h.messages[len].id = message.id
        THEN [h EXCEPT !.messages[len] = message]
        ELSE IF h.max_size > 0 /\ len >= h.max_size
        THEN [h EXCEPT
                !.system_message =
                    IF h.messages[1].role = "system"
                    THEN Some(h.messages[1]) ELSE h.system_message,
                !.messages = Append(Tail(h.messages), message)]
        ELSE [h EXCEPT !.messages = Append(h.messages, message)]

\* MessageHistory::push
push(h, message) ==
    LET len == Len(h.messages)
    IN  IF /\ is_some(message.id)
           /\ len > 0
           /\ is_some(h.messages[len].id)
           /\ h.messages[len].id = message.id
        THEN [h EXCEPT !.messages[len].content = message.content,
                       !.messages[len].thinking = message.thinking,
                       !.messages[len].tool_calls = message.tool_calls]
        ELSE IF h.max_size > 0 /\ len >= h.max_size
        THEN [h EXCEPT
                !.system_message =
                    IF h.messages[1].role = "system"
                    THEN Some(h.messages[1]) ELSE h.system_message,
                !.messages = Append(Tail(h.messages), message)]
        ELSE [h EXCEPT !.messages = Append(h.messages, message)]

\* MessageHistory::messages
messages(h) ==
    IF h.include_system
    THEN h.system_message \o h.messages
    ELSE h.messages

\* MessageHistory::messages_for_prompt
messages_for_prompt(h) ==
    IF h.include_system
    THEN h.system_message \o
         [i \in 1..Len(h.messages) |-> [h.messages[i] EXCEPT !.thinking = ""]]
    ELSE h.messages

----------------------------------------------------------------------------
(* SpecHistory: one MessageHistory driven by its public operations *)

\* the other components at rest
MfpIdle ==
    /\ mfp_value = <<>>
    /\ mfp_max_size = 0
    /\ mfp_pc = "done"
    /\ mfp_out = None

\* the tool names used for registrations, calls and tool_calls
ToolNames == {"get_time", "get_weather"}

\* callers that may be inside call_tool at the same time
NumCallers == 2
\* register_tool calls over a run
MaxEntries == 3

Callers == 1..NumCallers

\* call_tools not called: the calls it was given, the messages collected so
\* far, what the calls so far returned and which tools they reached, and
\* the Result it returned
NoCallTools ==
    [pc |-> "idle", tool_calls |-> <<>>, resp_messages |-> <<>>,
     returned |-> <<>>, invoked |-> <<>>, result |-> None]

\* ToolRegistry::new, no call_tool in flight
ToolIdle ==
    /\ tools = [n \in ToolNames |-> 0]
    /\ entries = <<>>
    /\ calls = [c \in Callers |-> [pc |-> "idle", name |-> "", tool |-> 0, entered |-> FALSE, result |-> None]]
    /\ registry_log = <<>>
    /\ call_tools = NoCallTools

\* no conversion under way
WireIdle ==
    /\ wire_in = [type |-> "none"]
    /\ wire_value = None
    /\ wire_out = None

\* no listing made
ListIdle == listed = [by |-> "none"]

\* invocations of the flow tool over a run
NumFlowCalls == 2
\* starts of the Stream Tool agent over a run
MaxFlowStarts == 1

FlowCallers == 1..NumFlowCalls

\* the ids of the contexts the invocations are made with
CtxIds == {1, 2}

\* an invocation not made yet: its context, the ToolEntry it looked up, the
\* state of its oneshot channel and what call_tool returned
NoFlowCall == [pc |-> "idle", ctx |-> 0, tool |-> 0, chan |-> "none", value |-> None,
               result |-> None]

\* StreamToolAgent::new, not started: no pending slot (0), lock free (0)
FlowNew(name) ==
    /\ flow_agent = [name |-> name, running |-> FALSE, lock |-> 0,
                     pending |-> [k \in CtxIds |-> 0], stopped |-> FALSE]
    /\ flow_calls = [i \in FlowCallers |-> NoFlowCall]
    /\ tool_in = {}

FlowIdle == FlowNew("get_time")

\* a process() call not made yet
NoCall == [pin |-> "none"]

\* PreambleAgent::new without a preamble config, MessagesAgent::new
MsgIdle ==
    /\ pre_preamble = None
    /\ pre_prepended = FALSE
    /\ pre_last = NoCall
    /\ msgs_max_size = 0
    /\ msgs_messages = <<>>
    /\ msgs_last = NoCall

\* nothing pushed and no preamble seeded yet: whether a message was pushed,
\* the set_preamble calls, and whether one came after a push
NewMhaPeriod == [pushed |-> FALSE, seeds |-> 0, late |-> FALSE]

\* MessageHistoryAgent::new
MhaIdle ==
    /\ mha_history = [messages |-> <<>>, max_size |-> 0,
                      system_message |-> None, include_system |-> FALSE]
    /\ mha_preamble_included = FALSE
    /\ mha_out = [history |-> None, message_history |-> None, result |-> "none"]
    /\ mha_period = NewMhaPeriod

\* no message input handled yet: the role the check after the pushes saw, the
\* stream config read, the prompts of the requests issued and the messages
\* the provider answered with
NoTurn == [use_stream |-> FALSE, last_role |-> None, prompts |-> <<>>, responses |-> <<>>,
           echoed |-> <<>>]

\* nothing received and no preamble seeded yet: the inbound messages pushed,
\* the set_preamble calls, whether one came after a push, the preamble seeded,
\* and the number of provider requests made before the period
NewPeriod == [received |-> <<>>, seeds |-> 0, late |-> FALSE, preamble |-> <<>>,
              from_request |-> 0]

\* no stream open: the locals of the streaming branch (id, content, thinking,
\* tool_calls, message), the deltas the provider sent, whether one was marked
\* done, and the number of stored messages when the request was sent
NoStream == [id |-> None, content |-> "", thinking |-> "", tool_calls |-> <<>>,
             message |-> None, deltas |-> <<>>, done |-> FALSE, base |-> 0]

\* OpenAIChatAgent::new / OllamaChatAgent::new
ChatNew(agent) ==
    /\ chat_agent = agent
    /\ chat_history = [messages |-> <<>>, max_size |-> 0,
                       system_message |-> None, include_system |-> FALSE]
    /\ chat_preamble_included = FALSE
    /\ chat_pc = "await"
    /\ chat_turn = NoTurn
    /\ chat_period = NewPeriod
    /\ chat_stream = NoStream
    /\ chat_out = [message |-> None, history |-> None]
    /\ chat_calls = <<>>
    /\ resp_messages = <<>>
    /\ chat_requests = 0
    /\ chat_result = [status |-> "none", call |-> 0]

\* a chat agent that has handled no input
ChatIdle == ChatNew("ollama")

InitHistory ==
    /\ \E msgs \in SeqsUpTo(HistMsgs, MaxLen), size \in 0..MaxSize :
          history = new(msgs, size)
    /\ lastArg = None
    /\ prevId = None
    /\ pushed = <<>>
    /\ lastCall = None
    /\ MfpIdle
    /\ MsgIdle
    /\ ToolIdle
    /\ ChatIdle
    /\ WireIdle
    /\ MhaIdle
    /\ ListIdle
    /\ FlowIdle

Push(m) ==
    /\ Len(push(history, m).messages) <= MaxLen
    /\ history' = push(history, m)
    /\ lastArg' = Some(m)
    /\ prevId' = IF is_some(lastArg) THEN lastArg[1].id ELSE None
    /\ UNCHANGED <<pushed, lastCall, mfpVars, toolVars, chatVars, wireVars, mhaVars, listVars, msgVars, flowVars>>

SetMaxSize(size) ==
    /\ history' = set_max_size(history, size)
    /\ lastArg' = None
    /\ prevId' = None
    /\ UNCHANGED <<pushed, lastCall, mfpVars, toolVars, chatVars, wireVars, mhaVars, listVars, msgVars, flowVars>>

SetIncludeSystem(include) ==
    /\ history' = set_include_system(history, include)
    /\ lastArg' = None
    /\ prevId' = None
    /\ UNCHANGED <<pushed, lastCall, mfpVars, toolVars, chatVars, wireVars, mhaVars, listVars, msgVars, flowVars>>

SetPreamble(preamble) ==
    /\ Len(set_preamble(history, preamble).messages) <= MaxLen
    /\ history' = set_preamble(history, preamble)
    /\ lastArg' = None
    /\ prevId' = None
    /\ UNCHANGED <<pushed, lastCall, mfpVars, toolVars, chatVars, wireVars, mhaVars, listVars, msgVars, flowVars>>

NextHistory ==
    \/ \E m \in HistMsgs : Push(m)
    \/ \E size \in 0..MaxSize : SetMaxSize(size)
    \/ \E include \in BOOLEAN : SetIncludeSystem(include)
    \/ \E preamble \in SeqsUpTo(PreambleMsgs, MaxPreamble) : SetPreamble(preamble)

SpecHistory == InitHistory /\ [][NextHistory]_vars

----------------------------------------------------------------------------
(* SpecPush: a history constructed empty (new(vec![], N), then               *)
(* set_include_system) and driven by push alone; pushed logs the arguments.  *)

InitPush ==
    /\ \E size \in 0..MaxSize, include \in BOOLEAN :
          history = set_include_system(new(<<>>, size), include)
    /\ lastArg = None
    /\ prevId = None
    /\ pushed = <<>>
    /\ lastCall = None
    /\ MfpIdle
    /\ MsgIdle
    /\ ToolIdle
    /\ ChatIdle
    /\ WireIdle
    /\ MhaIdle
    /\ ListIdle
    /\ FlowIdle

PushLogged(m) ==
    /\ Len(pushed) <= MaxSize
    /\ history' = push(history, m)
    /\ pushed' = Append(pushed, m)
    /\ lastArg' = Some(m)
    /\ prevId' = IF is_some(lastArg) THEN lastArg[1].id ELSE None
    /\ UNCHANGED <<lastCall, mfpVars, toolVars, chatVars, wireVars, mhaVars, listVars, msgVars, flowVars>>

NextPush == \E m \in HistMsgs : PushLogged(m)

SpecPush == InitPush /\ [][NextPush]_vars

----------------------------------------------------------------------------
(* SpecResize: a history constructed empty, filled by push, and resized by   *)
(* set_max_size and set_preamble; lastCall keeps the resizing call just made  *)
(* and the history it was made on.                                           *)

InitResize ==
    /\ \E size \in 0..MaxSize, include \in BOOLEAN :
          history = set_include_system(new(<<>>, size), include)
    /\ lastArg = None
    /\ prevId = None
    /\ pushed = <<>>
    /\ lastCall = None
    /\ MfpIdle
    /\ MsgIdle
    /\ ToolIdle
    /\ ChatIdle
    /\ WireIdle
    /\ MhaIdle
    /\ ListIdle
    /\ FlowIdle

ResizePush(m) ==
    /\ Len(push(history, m).messages) <= MaxLen
    /\ history' = push(history, m)
    /\ lastCall' = None
    /\ UNCHANGED <<lastArg, prevId, pushed, mfpVars, toolVars, chatVars, wireVars, mhaVars, listVars, msgVars, flowVars>>

ResizeSetIncludeSystem(include) ==
    /\ history' = set_include_system(history, include)
    /\ lastCall' = None
    /\ UNCHANGED <<lastArg, prevId, pushed, mfpVars, toolVars, chatVars, wireVars, mhaVars, listVars, msgVars, flowVars>>

ResizeSetMaxSize(size) ==
    /\ history' = set_max_size(history, size)
    /\ lastCall' = Some([op |-> "set_max_size", size |-> size,
                         preamble |-> <<>>, before |-> history])
    /\ UNCHANGED <<lastArg, prevId, pushed, mfpVars, toolVars, chatVars, wireVars, mhaVars, listVars, msgVars, flowVars>>

ResizeSetPreamble(preamble) ==
    /\ Len(set_preamble(history, preamble).messages) <= MaxLen
    /\ history' = set_preamble(history, preamble)
    /\ lastCall' = Some([op |-> "set_preamble", size |-> history.max_size,
                         preamble |-> preamble, before |-> history])
    /\ UNCHANGED <<lastArg, prevId, pushed, mfpVars, toolVars, chatVars, wireVars, mhaVars, listVars, msgVars, flowVars>>

NextResize ==
    \/ \E m \in HistMsgs : ResizePush(m)
    \/ \E include \in BOOLEAN : ResizeSetIncludeSystem(include)
    \/ \E size \in 0..MaxSize : ResizeSetMaxSize(size)
    \/ \E preamble \in SeqsUpTo(PreambleMsgs, MaxPreamble) : ResizeSetPreamble(preamble)

SpecResize == InitResize /\ [][NextResize]_vars

----------------------------------------------------------------------------
(* Claims about MessageHistory *)

\* the two most recent operations were pushes carrying the same id
PushPair ==
    /\ is_some(lastArg)
    /\ is_some(lastArg[1].id)
    /\ prevId = lastArg[1].id

\* C1: with max_size = N > 0 the number of stored messages never exceeds N,
\* whatever messages are pushed (appending or coalescing).
C1_BoundedHistory ==
    history.max_size > 0 => Len(history.messages) <= history.max_size

\* a push into a full bounded history whose oldest message, a system message,
\* was evicted and retained
C1_Witness ==
    /\ is_some(lastArg)
    /\ lastArg[1].id = None
    /\ history.max_size = MaxSize
    /\ Len(history.messages) = history.max_size
    /\ ~history.include_system
    /\ is_some(history.system_message)

\* C2 as stated: after two pushes in direct succession with the same id the
\* history holds exactly one message with that id, and its content is the
\* content of the second push.
C2_OneStoredPerId ==
    PushPair =>
        LET same == { i \in 1..Len(history.messages) :
                        history.messages[i].id = lastArg[1].id }
        IN  /\ Cardinality(same) = 1
            /\ \A i \in same : history.messages[i].content = lastArg[1].content

\* C2 amended: the second of two pushes in direct succession with the same id
\* appends nothing; it leaves the earlier messages as they were, and the last
\* stored message carries that id and the content of the second push.
C2_PairCoalesces ==
    [][PushPair' =>
        LET old == history.messages
            now == history'.messages
        IN  /\ Len(now) = Len(old)
            /\ \A i \in 1..(Len(now) - 1) : now[i] = old[i]
            /\ Last(now).id = lastArg'[1].id
            /\ Last(now).content = lastArg'[1].content]_vars

\* the stored user message "Hello" (id m1) was updated in place by a second
\* push with id m1
C2_Witness ==
    /\ PushPair
    /\ Last(history.messages).role = "user"
    /\ Last(history.messages).content = "Hello, updated!"

\* C3: every stored message with non-empty thinking is returned by
\* messages_for_prompt() with thinking empty and by messages() with thinking
\* intact, for include_system true and false.
C3_PromptStripsThinking ==
    LET off == Len(messages(history)) - Len(history.messages)
    IN  \A i \in 1..Len(history.messages) :
            history.messages[i].thinking # "" =>
                /\ messages_for_prompt(history)[i + off].thinking = ""
                /\ messages(history)[i + off] = history.messages[i]

\* no two pushes in direct succession share an id
NoCoalescing(log) ==
    \A i \in 1..(Len(log) - 1) :
        ~(is_some(log[i].id) /\ log[i].id = log[i + 1].id)

\* a system message pushed first, then max_size non-system messages
SystemThenN ==
    /\ history.max_size >= 1
    /\ history.include_system
    /\ Len(pushed) = history.max_size + 1
    /\ pushed[1].role = "system"
    /\ \A i \in 2..Len(pushed) : pushed[i].role # "system"
    /\ NoCoalescing(pushed)

\* C6: after a system message and then N distinct non-system messages were
\* pushed into an empty history with max_size = N and include_system = true,
\* messages() is the system message followed by the N messages, in order.
C6_SystemRetained ==
    SystemThenN => messages(history) = pushed

\* the largest bounded history took a system message and max_size more
C6_Witness ==
    SystemThenN /\ history.max_size = MaxSize /\ MaxSize >= 2

Max(S) == CHOOSE x \in S : \A y \in S : x >= y

\* the call just made was a set_max_size that evicted messages
Shrunk ==
    /\ is_some(lastCall)
    /\ lastCall[1].op = "set_max_size"
    /\ lastCall[1].size > 0
    /\ Len(lastCall[1].before.messages) > lastCall[1].size

\* positions of the system messages in the prefix that call evicted
EvictedSystems ==
    { i \in 1..(Len(lastCall[1].before.messages) - lastCall[1].size) :
        lastCall[1].before.messages[i].role = "system" }

\* C11: when set_max_size shrinks a history with include_system = true and
\* the evicted prefix holds more than one system message, the message
\* retained as system_message is the last-occurring system message of the
\* evicted prefix.
C11_RetainsLastSystem ==
    (/\ Shrunk
     /\ lastCall[1].before.include_system
     /\ Cardinality(EvictedSystems) > 1)
    => history.system_message = Some(lastCall[1].before.messages[Max(EvictedSystems)])

\* C12: with include_system enabled, set_max_size(k) on a history of more
\* than k stored messages whose evicted prefix holds a system message leaves
\* exactly the k most recent messages stored, and messages() returns that
\* system message followed by those k messages (length k + 1).
C12_ShrinkKeepsRecent ==
    (/\ Shrunk
     /\ lastCall[1].before.include_system
     /\ EvictedSystems # {})
    => LET k == lastCall[1].size
           old == lastCall[1].before.messages
           recent == SubSeq(old, Len(old) - k + 1, Len(old))
       IN  /\ history.messages = recent
           /\ Len(messages(history)) = k + 1
           /\ \E i \in EvictedSystems : messages(history) = <<old[i]>> \o recent

\* [system "Be terse.", user "Hi"] was shrunk to max_size 1 and messages()
\* still returns both
C12_Witness ==
    /\ Shrunk
    /\ lastCall[1].size = 1
    /\ lastCall[1].before.messages =
          <<Message("system", "Be terse."), Message("user", "Hi")>>
    /\ Len(history.messages) = 1
    /\ messages(history) = lastCall[1].before.messages

\* C13: set_preamble with a non-empty preamble leaves the stored messages
\* equal to the preamble followed by the previously stored messages, cut from
\* the front to the last max_size entries when max_size > 0 (so the bound
\* holds again), and nothing retained before the call is carried over: what is
\* retained afterwards, if anything, is a system message of the preamble that
\* the cut evicted; with an empty preamble the history is unchanged.
C13_PreambleSeeds ==
    (is_some(lastCall) /\ lastCall[1].op = "set_preamble")
    => LET b == lastCall[1].before
           pre == lastCall[1].preamble
           all == pre \o b.messages
           cut == IF b.max_size > 0 /\ Len(all) > b.max_size
                  THEN Len(all) - b.max_size ELSE 0
       IN  IF pre = <<>>
           THEN history = b
           ELSE /\ history.messages = SubSeq(all, cut + 1, Len(all))
                /\ history.max_size = b.max_size
                /\ b.max_size > 0 => Len(history.messages) <= b.max_size
                /\ \/ history.system_message = None
                   \/ \E i \in 1..cut :
                        /\ i <= Len(pre)
                        /\ pre[i].role = "system"
                        /\ history.system_message = Some(pre[i])

\* a preamble was put in front of a bounded history that had room left and a
\* system message retained; the cut took place, part of the preamble is
\* stored, and nothing is retained any more
C13_Witness ==
    /\ is_some(lastCall)
    /\ lastCall[1].op = "set_preamble"
    /\ is_some(lastCall[1].before.system_message)
    /\ lastCall[1].before.max_size = MaxSize
    /\ Len(lastCall[1].before.messages) < MaxSize
    /\ Len(lastCall[1].preamble) + Len(lastCall[1].before.messages) > MaxSize
    /\ history.messages # lastCall[1].before.messages
    /\ history.system_message = None

----------------------------------------------------------------------------
(* MessagesForPromptAgent::process  (message.rs)                            *)
(* A message here is [role, content, thinking], thinking an Option; the      *)
(* image size of the "image" feature is not part of the default build.      *)

\* largest max_size config tried (the smallest is -1)
MaxBudget == 6
\* longest input array
MaxInput == 4

PromptMessage(role, content, thinking) ==
    [role |-> role, content |-> content, thinking |-> thinking]

PromptMsgs ==
    { PromptMessage("system", "S", None),
      PromptMessage("system", "Be terse.", None),
      PromptMessage("user", "U1", None),
      PromptMessage("user", "U2", None),
      PromptMessage("assistant", "A1", Some("hm")),
      PromptMessage("tool", "T1", None) }

Front(s) == SubSeq(s, 1, Len(s) - 1)

Reverse(s) == [i \in 1..Len(s) |-> s[Len(s) + 1 - i]]

\* the leading system message is taken while its size is left out of total_size
extract_system_uncounted(msgs) ==
    IF msgs[1].role = "system"
    THEN [system_message |-> Some(msgs[1]), total_size |-> 0,
          messages |-> Tail(msgs)]
    ELSE [system_message |-> None, total_size |-> 0, messages |-> msgs]

\* "Extract system message if exists": the front message when its role is
\* system; its content length opens total_size
extract_system(msgs) ==
    IF msgs[1].role = "system"
    THEN [system_message |-> Some(msgs[1]),
          total_size |-> Len(msgs[1].content),
          messages |-> Tail(msgs)]
    ELSE [system_message |-> None, total_size |-> 0, messages |-> msgs]

RECURSIVE collect_late_break(_, _, _)
\* the budget test made after the message was selected
collect_late_break(msgs, total_size, max_size) ==
    IF msgs = <<>>
    THEN <<>>
    ELSE LET msg == Last(msgs)
             msg_size == Len(msg.content)
         IN  IF total_size > max_size
             THEN <<>>
             ELSE <<[msg EXCEPT !.thinking = None]>>
                  \o collect_late_break(Front(msgs), total_size + msg_size, max_size)

RECURSIVE collect_skip_unfit(_, _, _)
\* a collection that passes over a message that does not fit and goes on
\* with the older ones
collect_skip_unfit(msgs, total_size, max_size) ==
    IF msgs = <<>>
    THEN <<>>
    ELSE LET msg == Last(msgs)
             msg_size == Len(msg.content)
         IN  IF total_size + msg_size > max_size
             THEN collect_skip_unfit(Front(msgs), total_size, max_size)
             ELSE <<[msg EXCEPT !.thinking = None]>>
                  \o collect_skip_unfit(Front(msgs), total_size + msg_size, max_size)

RECURSIVE collect(_, _, _)
\* "Collect messages in reverse order": pop from the back until the next
\* message would pass max_size; thinking is removed from what is selected
collect(msgs, total_size, max_size) ==
    IF msgs = <<>>
    THEN <<>>
    ELSE LET msg == Last(msgs)
             msg_size == Len(msg.content)
         IN  IF total_size + msg_size > max_size
             THEN <<>>
             ELSE <<[msg EXCEPT !.thinking = None]>>
                  \o collect(Front(msgs), total_size + msg_size, max_size)

\* the selection left as collected
ensure_first_user_skipped(selected) == selected

RECURSIVE ensure_first_user(_)
\* "Ensure the first message is user": pop the oldest selected message while
\* its role is not user
ensure_first_user(selected) ==
    IF selected = <<>>
    THEN <<>>
    ELSE IF Last(selected).role # "user"
    THEN ensure_first_user(Front(selected))
    ELSE selected

\* the messages put on the output for a non-empty input and max_size > 0
window(msgs, max_size) ==
    LET ex == extract_system(msgs)
        selected == ensure_first_user(collect(ex.messages, ex.total_size, max_size))
    IN  Reverse(selected \o ex.system_message)

\* what process outputs: the input itself for max_size <= 0, nothing for an
\* empty input, the window otherwise
process_output(value, max_size) ==
    IF max_size <= 0
    THEN Some(value)
    ELSE IF value = <<>>
    THEN None
    ELSE Some(window(value, max_size))

HistIdle ==
    /\ history = new(<<>>, 0)
    /\ lastArg = None
    /\ prevId = None
    /\ pushed = <<>>
    /\ lastCall = None

InitPrompt ==
    /\ mfp_value \in SeqsUpTo(PromptMsgs, MaxInput)
    /\ mfp_max_size \in (-1)..MaxBudget
    /\ mfp_pc = "ready"
    /\ mfp_out = None
    /\ HistIdle
    /\ ToolIdle
    /\ ChatIdle
    /\ WireIdle
    /\ MhaIdle
    /\ ListIdle
    /\ MsgIdle
    /\ FlowIdle

MfpProcess ==
    /\ mfp_pc = "ready"
    /\ mfp_pc' = "done"
    /\ mfp_out' = process_output(mfp_value, mfp_max_size)
    /\ UNCHANGED <<mfp_value, mfp_max_size, histVars, toolVars, chatVars, wireVars, mhaVars, listVars, msgVars, flowVars>>

NextPrompt == MfpProcess

SpecPrompt == InitPrompt /\ [][NextPrompt]_vars

----------------------------------------------------------------------------
(* Claims about the Messages-for-Prompt window *)

SumContent(s) ==
    LET RECURSIVE sum(_)
        sum(i) == IF i = 0 THEN 0 ELSE Len(s[i].content) + sum(i - 1)
    IN  sum(Len(s))

\* process has run on a non-empty input with max_size > 0
Windowed == mfp_pc = "done" /\ mfp_max_size > 0 /\ mfp_value # <<>>

Example3 ==
    <<PromptMessage("system", "S", None), PromptMessage("user", "U1", None),
      PromptMessage("assistant", "A1", Some("hm")), PromptMessage("user", "U2", None)>>

\* C7 as stated: for [system S, user U1, assistant A1, user U2] and
\* max_size = len("U2") the output is [system S, user U2].
C7_ExampleWindow ==
    (Windowed /\ mfp_value = Example3 /\ mfp_max_size = Len("U2")) =>
        mfp_out = Some(<<PromptMessage("system", "S", None),
                         PromptMessage("user", "U2", None)>>)

\* C7 amended: the length of the system message counts against max_size, so
\* the output is [system S, user U2] for max_size = len("S") + len("U2"), and
\* [system S] alone for max_size = len("U2").
C7_ExampleWindowCounted ==
    (Windowed /\ mfp_value = Example3) =>
        /\ mfp_max_size = Len("S") + Len("U2") =>
              mfp_out = Some(<<PromptMessage("system", "S", None),
                               PromptMessage("user", "U2", None)>>)
        /\ mfp_max_size = Len("U2") =>
              mfp_out = Some(<<PromptMessage("system", "S", None)>>)

\* the example input was windowed with room for "S" and "U2"
C7_Witness ==
    Windowed /\ mfp_value = Example3 /\ mfp_max_size = Len("S") + Len("U2")

\* C8: for max_size > 0 the first non-system message of the output, when there
\* is one, has role user.
C8_StartsOnUser ==
    Windowed =>
        LET out == mfp_out[1]
            rest == { i \in 1..Len(out) : out[i].role # "system" }
        IN  rest # {} => out[Min(rest)].role = "user"

\* the budget admitted an assistant message as the oldest one and the
\* selection was cut back to the user message after it
C8_Witness ==
    /\ Windowed
    /\ Len(mfp_value) = 3
    /\ mfp_value[2].role = "assistant"
    /\ SumContent(SubSeq(mfp_value, 2, 3)) <= mfp_max_size
    /\ SumContent(mfp_value) > mfp_max_size
    /\ mfp_out = Some(<<mfp_value[3]>>)

RoleOrder(roles) ==
    LET r == IF roles # <<>> /\ roles[1] = "system" THEN Tail(roles) ELSE roles
    IN  /\ Len(r) % 2 = 1
        /\ \A i \in 1..Len(r) :
              r[i] = IF i % 2 = 1 THEN "user" ELSE "assistant"

\* C10: for max_size > 0 the roles of the output are (system,) user,
\* (assistant, user)*.
C10_RoleOrder ==
    Windowed => RoleOrder([i \in 1..Len(mfp_out[1]) |-> mfp_out[1][i].role])

\* the messages of s whose role is not system, in order
NonSystem(s) == SelectSeq(s, LAMBDA m : m.role # "system")

\* s without its thinking traces
Unthought(s) == [i \in 1..Len(s) |-> [s[i] EXCEPT !.thinking = None]]

\* run is the messages of input from some place to the end, thinking removed
IsSuffixRun(run, input) ==
    /\ Len(run) <= Len(input)
    /\ run = Unthought(SubSeq(input, Len(input) - Len(run) + 1, Len(input)))

AfterLeadingSystem(s) ==
    IF mfp_value[1].role = "system" THEN Tail(s) ELSE s

----------------------------------------------------------------------------
(* Claims about the coalescing push and the retained system message *)

\* the step is a push of a message that carries the id of the last stored
\* message
CoalescingPush ==
    /\ lastArg' # None
    /\ history.messages # <<>>
    /\ is_some(lastArg'[1].id)
    /\ Last(history.messages).id = lastArg'[1].id

\* C36: a coalescing push changes only the content, thinking and tool_calls
\* of the last stored message, which become those of the pushed message; the
\* message count, the last message's role, id and tool_name, every earlier
\* message and the retained system message are unchanged, and nothing is
\* evicted even when the history is at capacity.
C36_CoalesceChangesLastOnly ==
    [][CoalescingPush =>
          LET len == Len(history.messages)
              m == lastArg'[1]
          IN  /\ Len(history'.messages) = len
              /\ \A i \in 1..(len - 1) : history'.messages[i] = history.messages[i]
              /\ history'.messages[len] =
                    [history.messages[len] EXCEPT !.content = m.content,
                                                  !.thinking = m.thinking,
                                                  !.tool_calls = m.tool_calls]
              /\ history'.system_message = history.system_message
              /\ history'.max_size = history.max_size
              /\ history'.include_system = history.include_system]_vars

\* a full history that holds a system message first took a coalescing push
\* of a message whose role differs from the stored one's
C36_Witness ==
    /\ history.max_size > 0
    /\ Len(history.messages) = history.max_size
    /\ Len(history.messages) > 1
    /\ history.messages[1].role = "system"
    /\ lastArg # None
    /\ lastArg[1].role = "assistant"
    /\ lastArg[1].id = Some("m1")
    /\ prevId = Some("m1")
    /\ Last(history.messages).role = "user"
    /\ Last(history.messages).content = "Hello, updated!"

\* the step is a push that evicted the system message at the front: the
\* stored messages moved up by one place (a system message of HistMsgs has no
\* id, so the step is not a coalescing update)
PushEvictsSystem ==
    /\ lastCall' = None
    /\ history'.messages # history.messages
    /\ history.messages # <<>>
    /\ history.messages[1].role = "system"
    /\ Len(history'.messages) = Len(history.messages)
    /\ Front(history'.messages) = Tail(history.messages)

\* the step is the resizing call op, made on the history of the state
ResizeStep(op) ==
    /\ lastCall' # None
    /\ lastCall'[1].op = op
    /\ lastCall'[1].before = history

\* the system messages among the first cut messages of msgs
SystemsOf(msgs, cut) ==
    { msgs[i] : i \in { j \in 1..Min({cut, Len(msgs)}) : msgs[j].role = "system" } }

\* the messages a resizing step evicts from the front: those of all beyond
\* the last max_size
Cut(all, max_size) ==
    IF max_size > 0 /\ Len(all) > max_size THEN Len(all) - max_size ELSE 0

----------------------------------------------------------------------------
(* Tool registry and call_tool  (tool.rs)                                   *)
(* The registry's RwLock makes register, unregister and the lookup atomic;  *)
(* a call suspends at tool.lock().await and inside the tool body.           *)

\* ToolRegistry::register_tool: a new ToolEntry with a new AsyncMutex takes
\* the name's place
RegisterTool(n) ==
    /\ Len(entries) < MaxEntries
    /\ entries' = Append(entries, [name |-> n, holder |-> 0])
    /\ tools' = [tools EXCEPT ![n] = Len(entries) + 1]
    /\ UNCHANGED <<calls, registry_log, call_tools, histVars, mfpVars, chatVars, wireVars, mhaVars, listVars, msgVars, flowVars>>

\* ToolRegistry::unregister_tool
UnregisterTool(n) ==
    /\ tools' = [tools EXCEPT ![n] = 0]
    /\ UNCHANGED <<entries, calls, registry_log, call_tools, histVars, mfpVars, chatVars, wireVars, mhaVars, listVars, msgVars, flowVars>>

\* call_tool that answers Ok when the name has no entry
CallLookup_ignore_missing(c, n) ==
    /\ calls[c].pc = "idle"
    /\ calls' = [calls EXCEPT ![c] =
                    IF tools[n] = 0
                    THEN [pc |-> "idle", name |-> n, tool |-> 0, entered |-> FALSE,
                          result |-> Some(Ok("unit"))]
                    ELSE [pc |-> "locking", name |-> n, tool |-> tools[n],
                          entered |-> FALSE, result |-> None]]
    /\ UNCHANGED <<tools, entries, registry_log, call_tools, histVars, mfpVars, chatVars, wireVars, mhaVars, listVars, msgVars, flowVars>>

\* call_tool, to the lookup: get_tool under the read lock, Err when absent;
\* entered tells whether this call has been in the tool body
CallLookup(c, n) ==
    /\ calls[c].pc = "idle"
    /\ calls' = [calls EXCEPT ![c] =
                    IF tools[n] = 0
                    THEN [pc |-> "idle", name |-> n, tool |-> 0, entered |-> FALSE,
                          result |-> Some(Err(Other("Tool '" \o n \o "' not found")))]
                    ELSE [pc |-> "locking", name |-> n, tool |-> tools[n],
                          entered |-> FALSE, result |-> None]]
    /\ UNCHANGED <<tools, entries, registry_log, call_tools, histVars, mfpVars, chatVars, wireVars, mhaVars, listVars, msgVars, flowVars>>

\* the tool body entered without taking the entry's mutex
CallLock_unlocked(c) ==
    /\ calls[c].pc = "locking"
    /\ calls' = [calls EXCEPT ![c].pc = "body", ![c].entered = TRUE]
    /\ UNCHANGED <<tools, entries, registry_log, call_tools, histVars, mfpVars, chatVars, wireVars, mhaVars, listVars, msgVars, flowVars>>

\* call_tool: tool.lock().await returns once the entry's mutex is free
CallLock(c) ==
    /\ calls[c].pc = "locking"
    /\ entries[calls[c].tool].holder = 0
    /\ entries' = [entries EXCEPT ![calls[c].tool].holder = c]
    /\ calls' = [calls EXCEPT ![c].pc = "body", ![c].entered = TRUE]
    /\ UNCHANGED <<tools, registry_log, call_tools, histVars, mfpVars, chatVars, wireVars, mhaVars, listVars, msgVars, flowVars>>

\* a call_tool that looks the name up again when the body returns
CallReturn_checks_registry(c, r) ==
    /\ calls[c].pc = "body"
    /\ entries' = [entries EXCEPT ![calls[c].tool].holder = 0]
    /\ calls' = [calls EXCEPT ![c].pc = "idle", ![c].result =
                    IF tools[calls[c].name] = calls[c].tool THEN Some(r)
                    ELSE Some(Err(Other("Tool '" \o calls[c].name \o "' not found")))]
    /\ UNCHANGED <<tools, registry_log, call_tools, histVars, mfpVars, chatVars, wireVars, mhaVars, listVars, msgVars, flowVars>>

\* call_tool: the tool body returns r, the guard is dropped
CallReturn(c, r) ==
    /\ calls[c].pc = "body"
    /\ entries' = [entries EXCEPT ![calls[c].tool].holder = 0]
    /\ calls' = [calls EXCEPT ![c].pc = "idle", ![c].result = Some(r)]
    /\ UNCHANGED <<tools, registry_log, call_tools, histVars, mfpVars, chatVars, wireVars, mhaVars, listVars, msgVars, flowVars>>

\* what a tool body returns: a value, or an error of its own
ToolResults == { Ok("done"), Err(Other("tool failed")) }

InitTool ==
    /\ ToolIdle
    /\ HistIdle
    /\ MfpIdle
    /\ MsgIdle
    /\ ChatIdle
    /\ WireIdle
    /\ MhaIdle
    /\ ListIdle
    /\ FlowIdle

NextTool ==
    \/ \E n \in ToolNames : RegisterTool(n)
    \/ \E n \in ToolNames : UnregisterTool(n)
    \/ \E c \in Callers, n \in ToolNames : CallLookup(c, n)
    \/ \E c \in Callers : CallLock(c)
    \/ \E c \in Callers, r \in ToolResults : CallReturn(c, r)

SpecTool == InitTool /\ [][NextTool]_vars

----------------------------------------------------------------------------
(* Claims about the tool registry *)

InBody(c) == calls[c].pc = "body"

\* C4 as stated: no two call_tool invocations for the same tool name are in
\* the tool body at the same time, re-registration during a call included.
C4_OneBodyPerName ==
    \A n \in ToolNames :
        Cardinality({ c \in Callers : InBody(c) /\ calls[c].name = n }) <= 1

\* C4 amended: no two call_tool invocations that looked up the same ToolEntry
\* (the same registration of a name) are in the tool body at the same time,
\* and the one in the body holds that entry's mutex.
C4_OneBodyPerEntry ==
    \A e \in 1..Len(entries) :
        LET inside == { c \in Callers : InBody(c) /\ calls[c].tool = e }
        IN  /\ Cardinality(inside) <= 1
            /\ \A c \in inside : entries[e].holder = c

\* a second call for the same entry waits for the mutex while the first is in
\* the body
C4_Witness ==
    \E c1, c2 \in Callers :
        /\ InBody(c1)
        /\ calls[c2].pc = "locking"
        /\ calls[c2].tool = calls[c1].tool

\* the last call_tool of caller c found no entry for its name at the lookup
LookupFailed(c) ==
    /\ calls[c].pc = "idle"
    /\ calls[c].name # ""
    /\ calls[c].tool = 0

LookedUp(c) == calls[c].pc \in {"locking", "body"}

\* C34: a call_tool invocation that has looked up its tool keeps that tool:
\* whatever is registered or unregistered under the name meanwhile, it enters
\* the body under that tool's mutex and returns what that body returns; the
\* registry is not locked during the body, so register and unregister can
\* run at every point of a call; a lookup gets what the registry holds for
\* the name then.
C34_LookedUpCallCompletes ==
    /\ [][\A c \in Callers :
            LookedUp(c) =>
                /\ calls'[c].tool = calls[c].tool
                /\ calls'[c].pc = "body" => entries'[calls[c].tool].holder = c
                /\ calls'[c].pc = "idle" =>
                      /\ calls[c].pc = "body"
                      /\ calls'[c].result # None
                      /\ calls'[c].result[1] \in ToolResults
                      /\ entries'[calls[c].tool].holder = 0]_vars
    /\ [][\A c \in Callers :
            (calls[c].pc = "idle" /\ calls'[c] # calls[c]) =>
                calls'[c].tool = tools[calls'[c].name]]_vars
    /\ [](\A n \in ToolNames :
            /\ ENABLED UnregisterTool(n)
            /\ Len(entries) < MaxEntries => ENABLED RegisterTool(n))

\* a call returned its tool's value after the name was registered anew,
\* and the next call of the name is in the body of the new entry
C34_Witness ==
    \E c1, c2 \in Callers :
        /\ calls[c1].pc = "idle"
        /\ calls[c1].tool # 0
        /\ calls[c1].result = Some(Ok("done"))
        /\ InBody(c2)
        /\ calls[c2].name = calls[c1].name
        /\ calls[c2].tool > calls[c1].tool
        /\ tools[calls[c1].name] = 0

----------------------------------------------------------------------------
(* The registry alone, with the operations applied to it logged  (tool.rs)  *)

\* register_tool and unregister_tool calls over a run
MaxRegistryOps == 4

\* a register_tool that leaves an existing entry of the name in place
RegistryRegister_keep_first(n) ==
    /\ Len(entries) < MaxEntries
    /\ Len(registry_log) < MaxRegistryOps
    /\ entries' = Append(entries, [name |-> n, holder |-> 0])
    /\ tools' = IF tools[n] = 0 THEN [tools EXCEPT ![n] = Len(entries) + 1] ELSE tools
    /\ registry_log' = Append(registry_log, [op |-> "register", name |-> n])
    /\ UNCHANGED <<calls, call_tools, histVars, mfpVars, chatVars, wireVars, mhaVars, listVars, msgVars, flowVars>>

\* ToolRegistry::register_tool, logged: ToolEntry::new(tool), then
\* self.tools.insert(name, entry)
RegistryRegister(n) ==
    /\ Len(entries) < MaxEntries
    /\ Len(registry_log) < MaxRegistryOps
    /\ entries' = Append(entries, [name |-> n, holder |-> 0])
    /\ tools' = [tools EXCEPT ![n] = Len(entries) + 1]
    /\ registry_log' = Append(registry_log, [op |-> "register", name |-> n])
    /\ UNCHANGED <<calls, call_tools, histVars, mfpVars, chatVars, wireVars, mhaVars, listVars, msgVars, flowVars>>

\* ToolRegistry::unregister_tool, logged: self.tools.remove(name)
RegistryUnregister(n) ==
    /\ Len(registry_log) < MaxRegistryOps
    /\ tools' = [tools EXCEPT ![n] = 0]
    /\ registry_log' = Append(registry_log, [op |-> "unregister", name |-> n])
    /\ UNCHANGED <<entries, calls, call_tools, histVars, mfpVars, chatVars, wireVars, mhaVars, listVars, msgVars, flowVars>>

InitRegistry == InitTool

NextRegistry ==
    \/ \E n \in ToolNames : RegistryRegister(n)
    \/ \E n \in ToolNames : RegistryUnregister(n)

SpecRegistry == InitRegistry /\ [][NextRegistry]_vars

\* the ToolEntry made by operation i of log, a registration: registrations
\* make the entries in order
Capability(log, i) == Cardinality({ j \in 1..i : log[j].op = "register" })

\* what name n should resolve to after the operations of log: the capability
\* of the last operation on n when that is a registration, else nothing (0)
Resolve(log, n) ==
    LET on == { i \in 1..Len(log) : log[i].name = n }
    IN  IF on = {} \/ log[Max(on)].op = "unregister" THEN 0
        ELSE Capability(log, Max(on))

ResolvesMostRecent ==
    \A n \in ToolNames :
        /\ tools[n] = Resolve(registry_log, n)
        /\ tools[n] # 0 => entries[tools[n]].name = n

\* C21: after any sequence of register and unregister operations a tool name
\* resolves to the capability of the most recent registration of that name
\* that was not followed by an unregistration of it, and to nothing
\* otherwise; unregistering an absent name leaves the registry unchanged.
C21_MostRecentRegistration ==
    /\ []ResolvesMostRecent
    /\ [][\A n \in ToolNames :
            (tools[n] = 0 /\ RegistryUnregister(n)) =>
                (tools' = tools /\ entries' = entries)]_vars

\* get_time was registered twice and resolves to the second capability;
\* the last operation unregistered get_weather, which was absent
C21_Witness ==
    /\ registry_log = << [op |-> "register", name |-> "get_time"],
                         [op |-> "register", name |-> "get_time"],
                         [op |-> "unregister", name |-> "get_weather"] >>
    /\ tools["get_time"] = 2
    /\ tools["get_weather"] = 0

----------------------------------------------------------------------------
(* Chat agents: process() of OllamaChatAgent / OpenAIChatAgent with the      *)
(* stream config off, and tool::call_tools  (ollama.rs, openai.rs, tool.rs)  *)
(* process() takes &mut self: one input is handled at a time. It suspends    *)
(* at the provider call and at every tool call.                              *)

\* messages in one inbound value
MaxBatch == 1
\* tool calls in one provider response
MaxCalls == 2
\* stored messages up to which inbound values are taken
MaxChatLen == 2
\* provider requests over a run
MaxRequests == 2

InboundMsgs == { Message("user", "Hi"), Message("assistant", "Hello") }

NonEmptySeqsUpTo(S, n) == UNION { [1..k -> S] : k \in 1..n }

\* the provider's answer to request number id: a final answer, or a request
\* for the tool calls of batch
Response(id, batch) ==
    [Message("assistant", IF batch = <<>> THEN "Done" ELSE "") EXCEPT
        !.id = Some(id),
        !.tool_calls = IF batch = <<>> THEN None ELSE Some(batch)]

RECURSIVE push_all(_, _)
\* MessageHistory::push_all
push_all(h, msgs) ==
    IF msgs = <<>> THEN h ELSE push_all(push(h, Head(msgs)), Tail(msgs))

Ended(status, call) == [status |-> status, call |-> call]

\* the other components' variables, which no step of a chat agent touches
\* except the registry it reads
ChatOthers == <<histVars, mfpVars, toolVars, wireVars, mhaVars, listVars, msgVars, flowVars>>

\* a preamble step that seeds on every call
include_preamble_every_call(agent, included, h, preamble) ==
    IF agent = "ollama"
    THEN [history |-> set_preamble(h, preamble), preamble_included |-> TRUE,
          seeded |-> preamble # <<>>]
    ELSE [history |-> h, preamble_included |-> included, seeded |-> FALSE]

\* OllamaChatAgent::process, the preamble step: on the first call since
\* creation or the last reset the flag is set and a non-empty preamble config
\* is seeded with set_preamble; OpenAIChatAgent has no preamble.  seeded
\* tells whether set_preamble was called.
include_preamble(agent, included, h, preamble) ==
    IF agent = "ollama" /\ ~included
    THEN [history |-> set_preamble(h, preamble), preamble_included |-> TRUE,
          seeded |-> preamble # <<>>]
    ELSE [history |-> h, preamble_included |-> included, seeded |-> FALSE]

\* the period's record after the preamble step
period_seed(p, seeded, preamble) ==
    IF seeded
    THEN [p EXCEPT !.seeds = @ + 1, !.late = @ \/ p.received # <<>>,
                   !.preamble = preamble]
    ELSE p

\* the period's record after the inbound messages were pushed
period_receive(p, batch) == [p EXCEPT !.received = @ \o batch]

\* a check after the pushes that lets every turn go on
goes_on_any_role(h) == TRUE

\* process(), the check after the pushes: the turn goes on only when the
\* last message of the history is a user's
goes_on(h) == Last(messages(h)).role = "user"

\* the locals of the streaming branch before the first delta: OpenAIChatAgent
\* gives the message its id at once, OllamaChatAgent on every delta
stream_open(agent, id) ==
    [id |-> Some(id), content |-> "", thinking |-> "", tool_calls |-> <<>>,
     message |-> Some([Message("assistant", "") EXCEPT
                          !.id = IF agent = "openai" THEN Some(id) ELSE None]),
     deltas |-> <<>>, done |-> FALSE, base |-> 0]

\* a reset that leaves the stored messages in place
ChatReset_keep_messages ==
    /\ chat_pc = "await"
    /\ chat_history' = [chat_history EXCEPT !.max_size = 0, !.system_message = None,
                                            !.include_system = FALSE]
    /\ chat_out' = [chat_out EXCEPT !.history = Some(<<>>)]
    /\ chat_preamble_included' = FALSE
    /\ chat_turn' = NoTurn
    /\ chat_period' = [NewPeriod EXCEPT !.from_request = chat_requests]
    /\ chat_result' = Ended("ok", 0)
    /\ UNCHANGED <<chat_agent, chat_pc, chat_stream, chat_calls, resp_messages,
                   chat_requests, ChatOthers>>

\* process(), pin reset
ChatReset ==
    /\ chat_pc = "await"
    /\ chat_history' = [messages |-> <<>>, max_size |-> 0,
                        system_message |-> None, include_system |-> FALSE]
    /\ chat_out' = [chat_out EXCEPT !.history = Some(chat_history'.messages)]
    /\ chat_preamble_included' = FALSE
    /\ chat_turn' = NoTurn
    /\ chat_period' = [NewPeriod EXCEPT !.from_request = chat_requests]
    /\ chat_result' = Ended("ok", 0)
    /\ UNCHANGED <<chat_agent, chat_pc, chat_stream, chat_calls, resp_messages,
                   chat_requests, ChatOthers>>

\* process(), pin message, with a value MessageHistory::from_value rejects:
\* the preamble step is done, then the error is returned
ChatInvalid(preamble) ==
    /\ chat_pc = "await"
    /\ LET inc == include_preamble(chat_agent, chat_preamble_included,
                                   chat_history, preamble)
       IN  /\ chat_history' = inc.history
           /\ chat_preamble_included' = inc.preamble_included
           /\ chat_period' = period_seed(chat_period, inc.seeded, preamble)
    /\ chat_turn' = NoTurn
    /\ chat_result' = Ended("InvalidValue", 0)
    /\ UNCHANGED <<chat_agent, chat_pc, chat_stream, chat_out, chat_calls,
                   resp_messages, chat_requests, ChatOthers>>

RECURSIVE echo_and_push_newest_first(_, _, _)
\* the inbound loop walking the batch from its end
echo_and_push_newest_first(h, echoed, batch) ==
    IF batch = <<>> THEN [history |-> h, echoed |-> echoed]
    ELSE echo_and_push_newest_first(push(h, Last(batch)), Append(echoed, Last(batch)),
                                    Front(batch))

RECURSIVE echo_and_push(_, _, _)
\* process(), `for message in messages`: each message is put on the message
\* pin, then pushed; echoed is what went out on the pin, in order
echo_and_push(h, echoed, batch) ==
    IF batch = <<>> THEN [history |-> h, echoed |-> echoed]
    ELSE echo_and_push(push(h, Head(batch)), Append(echoed, Head(batch)), Tail(batch))

\* process(), pin message, to the top of the loop: the preamble step, then
\* every inbound message is emitted and pushed and the history is emitted;
\* the turn goes on only when the last message is a user's.  preamble and
\* use_stream are the configs this call reads.
ChatReceive(batch, preamble, use_stream) ==
    /\ chat_pc = "await"
    /\ chat_requests < MaxRequests
    /\ Len(chat_history.messages) - Len(chat_period.preamble) + Len(batch) <= MaxChatLen
    /\ LET inc == include_preamble(chat_agent, chat_preamble_included,
                                   chat_history, preamble)
           inbound == echo_and_push(inc.history, <<>>, batch)
           pushed_to == inbound.history
       IN  /\ chat_history' = pushed_to
           /\ chat_preamble_included' = inc.preamble_included
           /\ chat_period' = period_receive(period_seed(chat_period, inc.seeded, preamble), batch)
           /\ chat_out' = [message |-> Some(Last(batch)),
                           history |-> Some(pushed_to.messages)]
           /\ chat_turn' = [use_stream |-> use_stream /\ goes_on(pushed_to),
                            last_role |-> Some(Last(messages(pushed_to)).role),
                            prompts |-> <<>>, responses |-> <<>>,
                            echoed |-> inbound.echoed]
           /\ IF goes_on(pushed_to)
              THEN chat_pc' = "request" /\ chat_result' = Ended("running", 0)
              ELSE chat_pc' = "await" /\ chat_result' = Ended("ok", 0)
    /\ UNCHANGED <<chat_agent, chat_stream, chat_calls, resp_messages,
                   chat_requests, ChatOthers>>

\* the loop, to the provider call: the request is built from
\* messages_for_prompt, a fresh id is drawn and the request is sent
ChatRequest ==
    /\ chat_pc = "request"
    /\ chat_requests' = chat_requests + 1
    /\ chat_turn' = [chat_turn EXCEPT
                        !.prompts = Append(@, messages_for_prompt(chat_history))]
    /\ IF chat_turn.use_stream
       THEN /\ chat_pc' = "stream"
            /\ chat_stream' = [stream_open(chat_agent, chat_requests') EXCEPT
                                  !.base = Len(chat_history.messages)]
       ELSE /\ chat_pc' = "waiting"
            /\ UNCHANGED chat_stream
    /\ UNCHANGED <<chat_agent, chat_history, chat_preamble_included, chat_period,
                   chat_out, chat_calls, resp_messages, chat_result, ChatOthers>>

\* the provider answers: the message gets the request's id, is pushed and
\* emitted with the history; with tool_calls the dispatch starts, without
\* them the turn ends
ChatResponse(batch) ==
    /\ chat_pc = "waiting"
    /\ batch # <<>> => chat_requests < MaxRequests
    /\ chat_history' = push(chat_history, Response(chat_requests, batch))
    /\ chat_out' = [message |-> Some(Response(chat_requests, batch)),
                    history |-> Some(chat_history'.messages)]
    /\ chat_turn' = [chat_turn EXCEPT
                        !.responses = Append(@, Response(chat_requests, batch))]
    /\ IF batch = <<>>
       THEN chat_pc' = "await" /\ chat_result' = Ended("ok", 0)
       ELSE chat_pc' = "dispatch" /\ UNCHANGED chat_result
    /\ chat_calls' = batch
    /\ resp_messages' = <<>>
    /\ UNCHANGED <<chat_agent, chat_preamble_included, chat_period, chat_stream,
                   chat_requests, ChatOthers>>

\* the provider call fails: process() returns the error
ChatProviderError ==
    /\ chat_pc = "waiting"
    /\ chat_pc' = "await"
    /\ chat_result' = Ended("provider_error", 0)
    /\ UNCHANGED <<chat_agent, chat_history, chat_preamble_included, chat_turn,
                   chat_period, chat_stream, chat_out, chat_calls, resp_messages,
                   chat_requests, ChatOthers>>

\* each tool message pushed to the history as soon as its call returns
ChatToolOk_push_now ==
    /\ chat_pc = "dispatch"
    /\ Len(resp_messages) < Len(chat_calls)
    /\ LET call == chat_calls[Len(resp_messages) + 1]
       IN  /\ tools[call.name] # 0
           /\ resp_messages' = Append(resp_messages, ToolMessage(call.name, "result"))
           /\ chat_history' = push(chat_history, ToolMessage(call.name, "result"))
    /\ UNCHANGED <<chat_agent, chat_preamble_included, chat_pc, chat_turn,
                   chat_period, chat_stream, chat_out, chat_calls, chat_requests,
                   chat_result, ChatOthers>>

\* tool::call_tools, one round of the loop: call_tool returns a value and its
\* tool message joins resp_messages
ChatToolOk ==
    /\ chat_pc = "dispatch"
    /\ Len(resp_messages) < Len(chat_calls)
    /\ LET call == chat_calls[Len(resp_messages) + 1]
       IN  /\ tools[call.name] # 0
           /\ resp_messages' = Append(resp_messages, ToolMessage(call.name, "result"))
    /\ UNCHANGED <<chat_agent, chat_history, chat_preamble_included, chat_pc,
                   chat_turn, chat_period, chat_stream, chat_out, chat_calls,
                   chat_requests, chat_result, ChatOthers>>

\* tool::call_tools, one round of the loop: call_tool fails (no such tool, or
\* the tool's own error); `?` returns it through call_tools and process()
ChatToolFail ==
    /\ chat_pc = "dispatch"
    /\ Len(resp_messages) < Len(chat_calls)
    /\ LET call == chat_calls[Len(resp_messages) + 1]
       IN  chat_result' = Ended(IF tools[call.name] = 0 THEN "not_found" ELSE "tool_error",
                                Len(resp_messages) + 1)
    /\ chat_pc' = "await"
    /\ chat_calls' = <<>>
    /\ resp_messages' = <<>>
    /\ UNCHANGED <<chat_agent, chat_history, chat_preamble_included, chat_turn,
                   chat_period, chat_stream, chat_out, chat_requests, ChatOthers>>

\* the loop's last step with the tool messages thrown away
ChatToolsDone_drop_results ==
    /\ chat_pc = "dispatch"
    /\ Len(resp_messages) = Len(chat_calls)
    /\ chat_out' = [chat_out EXCEPT !.history = Some(chat_history.messages)]
    /\ chat_pc' = "request"
    /\ chat_calls' = <<>>
    /\ resp_messages' = <<>>
    /\ UNCHANGED <<chat_agent, chat_history, chat_preamble_included, chat_turn,
                   chat_period, chat_stream, chat_requests, chat_result, ChatOthers>>

\* the agent's call_tools after tool::call_tools returned Ok: push_all, the
\* history is emitted, and the loop goes to its next round
ChatToolsDone ==
    /\ chat_pc = "dispatch"
    /\ Len(resp_messages) = Len(chat_calls)
    /\ chat_history' = push_all(chat_history, resp_messages)
    /\ chat_out' = [chat_out EXCEPT !.history = Some(chat_history'.messages)]
    /\ chat_pc' = "request"
    /\ chat_calls' = <<>>
    /\ resp_messages' = <<>>
    /\ UNCHANGED <<chat_agent, chat_preamble_included, chat_turn, chat_period,
                   chat_stream, chat_requests, chat_result, ChatOthers>>

RECURSIVE SeqOf(_)
SeqOf(S) ==
    IF S = {} THEN <<>>
    ELSE LET x == CHOOSE y \in S : TRUE IN <<x>> \o SeqOf(S \ {x})

\* the registry after register_tool for each name of S, no call in flight
Registered(S) ==
    /\ entries = [i \in 1..Cardinality(S) |-> [name |-> SeqOf(S)[i], holder |-> 0]]
    /\ tools = [n \in ToolNames |->
                  IF n \in S THEN CHOOSE i \in 1..Cardinality(S) : SeqOf(S)[i] = n ELSE 0]
    /\ calls = [c \in Callers |-> [pc |-> "idle", name |-> "", tool |-> 0, entered |-> FALSE, result |-> None]]
    /\ registry_log = <<>>
    /\ call_tools = NoCallTools

\* the preamble configs a chat agent is run with
ChatPreambles ==
    { <<>>,
      <<Message("system", "Be kind.")>>,
      <<Message("system", "Be kind."), Message("user", "Hi")>> }

\* the preamble config the next message input finds: OllamaChatAgent alone
\* has one, and it stays what the first call of the period found
PreambleRead ==
    IF chat_agent # "ollama" THEN {<<>>}
    ELSE IF ~chat_preamble_included THEN ChatPreambles
    ELSE {chat_period.preamble}

ChatAgents == {"ollama", "openai"}

InitChat ==
    /\ \E agent \in ChatAgents : ChatNew(agent)
    /\ WireIdle
    /\ MhaIdle
    /\ ListIdle
    /\ \E S \in SUBSET ToolNames : Registered(S)
    /\ HistIdle
    /\ MfpIdle
    /\ MsgIdle
    /\ FlowIdle

NextChat ==
    \/ ChatReset
    \/ \E batch \in NonEmptySeqsUpTo(InboundMsgs, MaxBatch), preamble \in PreambleRead :
          ChatReceive(batch, preamble, FALSE)
    \/ \E preamble \in PreambleRead : ChatInvalid(preamble)
    \/ ChatRequest
    \/ \E batch \in SeqsUpTo({ ToolCall(n, json_object(<<>>)) : n \in ToolNames }, MaxCalls) :
          ChatResponse(batch)
    \/ ChatProviderError
    \/ ChatToolOk
    \/ ChatToolFail
    \/ ChatToolsDone
    \/ \E n \in ToolNames : UnregisterTool(n)

SpecChat == InitChat /\ [][NextChat]_vars

----------------------------------------------------------------------------
(* SpecStream: a chat agent with the stream config on *)

\* deltas in one streamed response
MaxDeltas == 2

\* a tool call in a streamed OpenAI delta (ChatCompletionMessageToolCallChunk)
Chunk(index, id, name, arguments) ==
    [index |-> index, id |-> id,
     function |-> Some([name |-> name, arguments |-> arguments])]

\* the chunks OpenAI streams: a call in one piece, a call in two pieces (the
\* first with the id, the name and no argument text yet, the second with the
\* argument text only), and a second call in one piece
OpenAIChunks ==
    { Chunk(0, Some("call1"), Some("get_weather"), Some("{}")),
      Chunk(0, Some("call1"), Some("get_weather"), Some("")),
      Chunk(0, None, None, Some("{}")),
      Chunk(1, Some("call2"), Some("get_time"), None) }

\* a tool call in an Ollama response: always whole
OllamaCalls ==
    { [name |-> "get_weather", arguments |-> json_object(<<>>)],
      [name |-> "get_time", arguments |-> json_object([properties |-> json_object(<<>>)])] }

\* one item of the provider's stream
Delta(content, thinking, tool_calls, done) ==
    [content |-> content, thinking |-> thinking, tool_calls |-> tool_calls, done |-> done]

\* the deltas a provider streams: text, reasoning (Ollama) or a refusal
\* (OpenAI), and tool calls; Ollama marks its last one done
StreamDeltas(agent) ==
    IF agent = "ollama"
    THEN { Delta(c, None, <<>>, done) : c \in {"Hel", "lo"}, done \in BOOLEAN } \cup
         { Delta("", Some("Hm"), <<>>, FALSE) } \cup
         { Delta("", None, <<call>>, done) : call \in OllamaCalls, done \in BOOLEAN }
    ELSE { Delta(Some(c), None, None, FALSE) : c \in {"Hel", "lo"} } \cup
         { Delta(None, Some("no"), None, FALSE) } \cup
         { Delta(None, None, Some(<<chunk>>), FALSE) : chunk \in OpenAIChunks }

\* serde_json::from_str on the argument texts of the chunks
from_str(arguments) ==
    IF arguments = "{}" THEN Ok(json_object(<<>>)) ELSE Err("InvalidValue")

\* TryFrom<&ChatCompletionMessageToolCallChunk> for ToolCall
chunk_try_from(call) ==
    IF call.function = None THEN Err("InvalidValue")
    ELSE LET function == call.function[1]
             parameters == IF function.arguments # None
                           THEN from_str(function.arguments[1])
                           ELSE Ok(json_object(<<>>))
         IN  IF function.name = None THEN Err("InvalidValue")
             ELSE IF ~parameters.ok THEN parameters
             ELSE Ok([ToolCall(function.name[1], parameters.value) EXCEPT !.id = call.id])

\* OllamaChatAgent::process, a tool call of a delta: the arguments, or their
\* "properties" member when they have one
ollama_call(call) ==
    ToolCall(call.name,
             IF call.arguments.json = "object" /\ "properties" \in DOMAIN call.arguments.fields
             THEN call.arguments.fields.properties
             ELSE call.arguments)

\* the ToolCalls of a delta, or the first conversion error
delta_tool_calls(agent, delta) ==
    IF agent = "ollama"
    THEN Ok([i \in 1..Len(delta.tool_calls) |-> ollama_call(delta.tool_calls[i])])
    ELSE IF delta.tool_calls = None THEN Ok(<<>>)
    ELSE LET tc == delta.tool_calls[1]
             converted == [i \in 1..Len(tc) |-> chunk_try_from(tc[i])]
         IN  IF \E i \in 1..Len(tc) : ~converted[i].ok
             THEN Err("InvalidValue")
             ELSE Ok([i \in 1..Len(tc) |-> converted[i].value])

\* the locals after a delta: content and thinking appended, the delta's tool
\* calls pushed onto tool_calls, the message brought up to date
stream_accumulate(agent, stream, delta, converted) ==
    LET content == stream.content \o
                   (IF agent = "ollama" THEN delta.content
                    ELSE IF delta.content = None THEN "" ELSE delta.content[1])
        thinking == stream.thinking \o
                    (IF delta.thinking = None THEN ""
                     ELSE IF agent = "ollama" THEN delta.thinking[1]
                     ELSE "Refusal: " \o delta.thinking[1])
        tool_calls == stream.tool_calls \o converted
        message == [Message("assistant", content) EXCEPT
                       !.thinking = thinking,
                       !.tool_calls = IF tool_calls # <<>> THEN Some(tool_calls) ELSE None,
                       !.id = stream.id]
    IN  [stream EXCEPT !.content = content, !.thinking = thinking,
                       !.tool_calls = tool_calls, !.message = Some(message),
                       !.deltas = Append(@, delta),
                       !.done = agent = "ollama" /\ delta.done]

\* the streaming branch, one round of `while let Some(res)`: the delta is
\* accumulated, the message is pushed and emitted and the history is emitted;
\* a tool call of an OpenAI delta that does not convert returns its error
ChatStreamDelta(delta) ==
    /\ chat_pc = "stream"
    /\ ~chat_stream.done
    /\ Len(chat_stream.deltas) < MaxDeltas
    /\ (delta.tool_calls # None /\ delta.tool_calls # <<>>) => chat_requests < MaxRequests
    /\ LET converted == delta_tool_calls(chat_agent, delta)
           stream == stream_accumulate(chat_agent, chat_stream, delta, converted.value)
       IN  IF converted.ok
           THEN /\ chat_stream' = stream
                /\ chat_history' = push(chat_history, stream.message[1])
                /\ chat_out' = [message |-> stream.message,
                                history |-> Some(chat_history'.messages)]
                /\ UNCHANGED <<chat_pc, chat_result>>
           ELSE /\ chat_stream' = [chat_stream EXCEPT !.deltas = Append(@, delta)]
                /\ chat_pc' = "await"
                /\ chat_result' = Ended("InvalidValue", 0)
                /\ UNCHANGED <<chat_history, chat_out>>
    /\ UNCHANGED <<chat_agent, chat_preamble_included, chat_turn, chat_period,
                   chat_calls, resp_messages, chat_requests, ChatOthers>>

\* the stream yields an error: process() returns it
ChatStreamError ==
    /\ chat_pc = "stream"
    /\ ~chat_stream.done
    /\ chat_pc' = "await"
    /\ chat_result' = Ended("provider_error", 0)
    /\ UNCHANGED <<chat_agent, chat_history, chat_preamble_included, chat_turn,
                   chat_period, chat_stream, chat_out, chat_calls, resp_messages,
                   chat_requests, ChatOthers>>

\* the stream is over (exhausted, or Ollama's done delta): the tool calls
\* collected are dispatched, OllamaChatAgent taking them from the message
\* and OpenAIChatAgent from its local; without any the turn ends
ChatStreamEnd ==
    /\ chat_pc = "stream"
    /\ LET tool_calls == IF chat_agent = "openai" THEN chat_stream.tool_calls
                         ELSE IF chat_stream.message[1].tool_calls # None
                         THEN chat_stream.message[1].tool_calls[1]
                         ELSE <<>>
       IN  /\ chat_calls' = tool_calls
           /\ IF tool_calls = <<>>
              THEN chat_pc' = "await" /\ chat_result' = Ended("ok", 0)
              ELSE chat_pc' = "dispatch" /\ UNCHANGED chat_result
    /\ resp_messages' = <<>>
    /\ chat_turn' = [chat_turn EXCEPT
                        !.responses = IF chat_stream.deltas = <<>> THEN @
                                      ELSE Append(@, chat_stream.message[1])]
    /\ UNCHANGED <<chat_agent, chat_history, chat_preamble_included, chat_period,
                   chat_stream, chat_out, chat_requests, ChatOthers>>

InitStream ==
    /\ \E agent \in ChatAgents : ChatNew(agent)
    /\ Registered(ToolNames)
    /\ WireIdle
    /\ MhaIdle
    /\ ListIdle
    /\ HistIdle
    /\ MfpIdle
    /\ MsgIdle
    /\ FlowIdle

NextStream ==
    \/ \E batch \in NonEmptySeqsUpTo(InboundMsgs, MaxBatch) : ChatReceive(batch, <<>>, TRUE)
    \/ ChatRequest
    \/ \E delta \in StreamDeltas(chat_agent) : ChatStreamDelta(delta)
    \/ ChatStreamError
    \/ ChatStreamEnd
    \/ ChatToolOk
    \/ ChatToolFail
    \/ ChatToolsDone

SpecStream == InitStream /\ [][NextStream]_vars

----------------------------------------------------------------------------
(* SpecInbound: a chat agent given batches of several messages, its provider *)
(* answering without tool calls                                              *)

\* messages in one inbound batch
MaxInbound == 2

InitInbound ==
    /\ \E agent \in ChatAgents : ChatNew(agent)
    /\ Registered(ToolNames)
    /\ WireIdle
    /\ MhaIdle
    /\ ListIdle
    /\ HistIdle
    /\ MfpIdle
    /\ MsgIdle
    /\ FlowIdle

NextInbound ==
    \/ ChatReset
    \/ \E batch \in NonEmptySeqsUpTo(InboundMsgs, MaxInbound), preamble \in PreambleRead :
          ChatReceive(batch, preamble, FALSE)
    \/ \E preamble \in PreambleRead : ChatInvalid(preamble)
    \/ ChatRequest
    \/ ChatResponse(<<>>)
    \/ ChatProviderError

SpecInbound == InitInbound /\ [][NextInbound]_vars

\* the last n messages of a list
Newest(msgs, n) == SubSeq(msgs, Len(msgs) - n + 1, Len(msgs))

\* C31: every message of an inbound batch is emitted on the message output
\* and pushed to the history, in batch order, before the first provider
\* request of that turn is issued; if the inbound value cannot be converted,
\* nothing is pushed or emitted and no provider request is issued.
C31_EchoedBeforeRequest ==
    /\ [](chat_turn.prompts # <<>> =>
            /\ chat_turn.echoed # <<>>
            /\ Len(chat_turn.prompts[1]) >= Len(chat_turn.echoed)
            /\ Newest(chat_turn.prompts[1], Len(chat_turn.echoed)) = chat_turn.echoed)
    /\ [][Len(chat_period'.received) > Len(chat_period.received) =>
            LET n == Len(chat_period'.received) - Len(chat_period.received)
                batch == Newest(chat_period'.received, n)
            IN  /\ chat_turn'.echoed = batch
                /\ Newest(chat_history'.messages, n) = batch
                /\ chat_out'.history = Some(chat_history'.messages)
                /\ chat_turn'.prompts = <<>>
                /\ chat_requests' = chat_requests]_vars
    /\ [][chat_result'.status = "InvalidValue" =>
            /\ chat_period'.received = chat_period.received
            /\ chat_history'.messages \in {chat_history.messages, chat_period'.preamble}
            /\ chat_out' = chat_out
            /\ chat_requests' = chat_requests
            /\ chat_pc' = "await"]_vars

\* a batch of two, an assistant's message and then a user's, went out and
\* into the history in that order behind the preamble, and the request was
\* built from them
C31_Witness ==
    /\ chat_turn.echoed = <<Message("assistant", "Hello"), Message("user", "Hi")>>
    /\ chat_period.preamble # <<>>
    /\ Len(chat_turn.prompts) = 1
    /\ Newest(chat_turn.prompts[1], 2) = chat_turn.echoed
    /\ chat_pc = "waiting"

----------------------------------------------------------------------------
(* Claims about streamed responses *)

\* the text of a delta
DeltaContent(delta) ==
    IF chat_agent = "ollama" THEN delta.content
    ELSE IF delta.content = None THEN ""
    ELSE delta.content[1]

RECURSIVE ConcatContents(_)
\* the texts of deltas, one after the other
ConcatContents(deltas) ==
    IF deltas = <<>> THEN ""
    ELSE DeltaContent(Head(deltas)) \o ConcatContents(Tail(deltas))

\* a streamed response has sent deltas and nothing was pushed after them
Streamed ==
    /\ chat_turn.use_stream
    /\ chat_stream.deltas # <<>>
    /\ chat_pc \in {"stream", "dispatch", "await"}

\* the stored messages that carry the stream's id
OfStream == SelectSeq(chat_history.messages, LAMBDA m : m.id = chat_stream.id)

\* the stream's message for the deltas given: stored once, after the messages
\* that were there when the request was sent, with their texts in order, and
\* emitted with the history
PushedAsOne(deltas) ==
    /\ Len(OfStream) = 1
    /\ Len(chat_history.messages) = chat_stream.base + 1
    /\ Last(chat_history.messages).id = chat_stream.id
    /\ Last(chat_history.messages).role = "assistant"
    /\ Last(chat_history.messages).content = ConcatContents(deltas)
    /\ chat_out.message = Some(Last(chat_history.messages))
    /\ chat_out.history = Some(chat_history.messages)

\* C29: for a streamed response of k >= 1 deltas, every delta is pushed under
\* one id that is stable for the stream and fresh for each provider request,
\* so the history gains exactly one assistant message for the whole stream;
\* after the j-th delta that message's content is the concatenation of the
\* contents of deltas 1..j, and the updated message and the full history are
\* emitted after every delta.
C29_StreamCoalesces ==
    Streamed => PushedAsOne(chat_stream.deltas)

\* what holds of the deltas that were handled: the one whose tool call did
\* not convert is the last one sent and left no trace
StreamCoalescesHandled ==
    Streamed =>
        IF chat_result.status = "InvalidValue"
        THEN Len(chat_stream.deltas) > 1 => PushedAsOne(Front(chat_stream.deltas))
        ELSE PushedAsOne(chat_stream.deltas)

\* the tool calls of a delta, as the provider sent them
DeltaCalls(delta) ==
    IF chat_agent = "ollama" THEN delta.tool_calls
    ELSE IF delta.tool_calls = None THEN <<>>
    ELSE delta.tool_calls[1]

\* the calls the provider requested over the deltas: OpenAI numbers them by
\* index, a call's fragments sharing it; Ollama sends each call whole
Requested(deltas) ==
    LET places == { p \in (1..Len(deltas)) \X (1..MaxCalls) :
                      p[2] <= Len(DeltaCalls(deltas[p[1]])) }
    IN  IF chat_agent = "ollama" THEN places
        ELSE { DeltaCalls(deltas[p[1]])[p[2]].index : p \in places }

\* C30: in streaming mode, tool-call fragments that share an index or id are
\* accumulated into one ToolCall: the finalized assistant message holds one
\* tool_calls entry per call the provider requested, and each requested call
\* is invoked exactly once in that dispatch step.
C30_FragmentsAccumulated ==
    ( /\ chat_turn.use_stream
      /\ Requested(chat_stream.deltas) # {}
      /\ chat_pc \in {"dispatch", "await"}
      /\ chat_result.status # "provider_error" ) =>
        /\ Last(chat_history.messages).id = chat_stream.id
        /\ is_some(Last(chat_history.messages).tool_calls)
        /\ Len(Last(chat_history.messages).tool_calls[1])
              = Cardinality(Requested(chat_stream.deltas))
        /\ chat_pc = "dispatch" =>
              Len(chat_calls) = Cardinality(Requested(chat_stream.deltas))

----------------------------------------------------------------------------
(* Claims about tool dispatch in a chat turn *)

\* process() has returned the error of a tool call that was not the first of
\* its batch: the calls before it had succeeded
FailedAfterSuccess ==
    /\ chat_pc = "await"
    /\ chat_result.status \in {"not_found", "tool_error"}
    /\ chat_result.call >= 2

----------------------------------------------------------------------------
(* Claims about the chat turn *)

\* process() is past the check that follows the pushes: at the top of the
\* loop, waiting for the provider, reading a stream or dispatching tools
InLoop == chat_pc \in {"request", "waiting", "stream", "dispatch"}

\* C22: in a chat turn no provider request is issued unless, after all
\* inbound messages of the batch were pushed, the last message of the history
\* has role user; when the last message has any other role the turn ends with
\* the history updated and without any provider call.
C22_RequestOnlyAfterUser ==
    /\ (InLoop \/ chat_turn.prompts # <<>>) => chat_turn.last_role = Some("user")
    /\ (is_some(chat_turn.last_role) /\ chat_turn.last_role # Some("user")) =>
          /\ chat_pc = "await"
          /\ chat_result = Ended("ok", 0)
          /\ chat_turn.prompts = <<>>
          /\ Last(chat_history.messages) = Last(chat_period.received)
          /\ chat_out.history = Some(chat_history.messages)

\* after a turn that made a request and a reset, an assistant message came in
\* behind a preamble that ends with a user message: it was pushed and the
\* turn ended there
C22_Witness ==
    /\ chat_turn.last_role = Some("assistant")
    /\ chat_requests = 1
    /\ chat_pc = "await"
    /\ chat_period.preamble # <<>>
    /\ Last(chat_period.preamble).role = "user"
    /\ Last(chat_history.messages) = Message("assistant", "Hello")

HasCalls(m) == is_some(m.tool_calls)

\* prompt ends with response, a message carrying tool calls, and after it one
\* tool message per call, in the order of the calls and under the calls' names
EndsWithResults(prompt, response) ==
    LET tool_calls == response.tool_calls[1]
        n == Len(tool_calls)
    IN  /\ Len(prompt) > n
        /\ prompt[Len(prompt) - n].id = response.id
        /\ \A i \in 1..n :
              /\ prompt[Len(prompt) - n + i].role = "tool"
              /\ prompt[Len(prompt) - n + i].tool_name = Some(tool_calls[i].name)

\* C23: within a turn each provider response that carries tool calls, once
\* all its tools succeeded, is followed by exactly one further provider
\* request whose prompt contains the tool-result messages; the turn ends at
\* the first response without tool calls and issues no further request; a
\* turn that went into the loop has ended only after such a response or after
\* a step failed.
C23_LoopUntilNoToolCalls ==
    LET prompts == chat_turn.prompts
        responses == chat_turn.responses
        P == Len(prompts)
        R == Len(responses)
    IN  /\ P \in {R, R + 1}
        /\ \A k \in 1..R :
              ~HasCalls(responses[k]) =>
                  /\ k = R
                  /\ P = R
                  /\ chat_pc = "await"
                  /\ chat_result = Ended("ok", 0)
        /\ \A k \in 2..P :
              /\ HasCalls(responses[k - 1])
              /\ EndsWithResults(prompts[k], responses[k - 1])
        /\ (R >= 1 /\ HasCalls(responses[R]) /\ P = R) =>
              \/ chat_pc \in {"dispatch", "request"}
              \/ chat_pc = "await" /\ chat_result.status \in {"not_found", "tool_error"}
        /\ chat_pc = "request" => ENABLED ChatRequest
        /\ (chat_pc = "await" /\ chat_turn.last_role = Some("user")) =>
              \/ chat_result.status \in {"not_found", "tool_error", "provider_error"}
              \/ /\ chat_result = Ended("ok", 0)
                 /\ R >= 1
                 /\ ~HasCalls(responses[R])

\* a turn of two requests has ended: the first response asked for MaxCalls
\* tools, the second carried none
C23_Witness ==
    /\ chat_pc = "await"
    /\ chat_result = Ended("ok", 0)
    /\ Len(chat_turn.prompts) = 2
    /\ Len(chat_turn.responses) = 2
    /\ HasCalls(chat_turn.responses[1])
    /\ Len(chat_turn.responses[1].tool_calls[1]) = MaxCalls
    /\ Len(chat_turn.prompts[2]) = Len(chat_turn.prompts[1]) + 1 + MaxCalls

\* the last input handled was a reset
JustReset == chat_turn = NoTurn /\ chat_result = Ended("ok", 0)

\* the messages of a prompt that came in on the message pin or from the
\* preamble: those the loop made carry the id of a request or the role tool
NotFromLoop(prompt) == SelectSeq(prompt, LAMBDA m : m.id = None /\ m.role # "tool")

\* the provider's answers in a prompt
FromProvider(prompt) == SelectSeq(prompt, LAMBDA m : m.id # None)

\* C24: after a reset input the chat agent's history is empty, with no
\* retained system message and include_system false, and an empty history is
\* emitted; no message received before the reset appears in the prompt of any
\* provider request issued after it: such a prompt holds what was seeded and
\* received since the reset, and answers to requests made since.
C24_ResetClears ==
    /\ JustReset =>
          /\ chat_history = [messages |-> <<>>, max_size |-> 0,
                             system_message |-> None, include_system |-> FALSE]
          /\ chat_out.history = Some(<<>>)
    /\ \A k \in 1..Len(chat_turn.prompts) :
          LET prompt == chat_turn.prompts[k]
          IN  /\ NotFromLoop(prompt) = chat_period.preamble \o chat_period.received
              /\ \A i \in 1..Len(FromProvider(prompt)) :
                    FromProvider(prompt)[i].id[1] > chat_period.from_request

\* a request went out after a reset that followed a whole turn: its prompt
\* is the one message received since
C24_Witness ==
    /\ chat_period.from_request = 1
    /\ chat_period.received = <<Message("user", "Hi")>>
    /\ chat_period.preamble = <<>>
    /\ chat_turn.prompts = << <<Message("user", "Hi")>> >>

----------------------------------------------------------------------------
(* AgentValue and the wire shapes of Message and MessageHistory              *)
(* (message_lib.rs).  An AgentValue is unit, an integer, a string, an array  *)
(* (items) or an object (fields: key -> value).                              *)

unit == [kind |-> "unit"]

integer(i) == [kind |-> "integer", int |-> i]

string(s) == [kind |-> "string", str |-> s]

array(items) == [kind |-> "array", items |-> items]

object(fields) == [kind |-> "object", fields |-> fields]

\* AgentValue::get
get(v, key) ==
    IF v.kind = "object" /\ key \in DOMAIN v.fields
    THEN Some(v.fields[key]) ELSE None

\* AgentValue::as_str
as_str(v) == IF v.kind = "string" THEN Some(v.str) ELSE None

\* AgentValue::as_array
as_array(v) == IF v.kind = "array" THEN Some(v.items) ELSE None

\* obj.get(key).and_then(|v| v.as_str()), AgentValue::get_str
get_str(v, key) ==
    IF is_some(get(v, key)) THEN as_str(get(v, key)[1]) ELSE None

\* AgentValue::get_array
get_array(v, key) ==
    IF is_some(get(v, key)) THEN as_array(get(v, key)[1]) ELSE None

RECURSIVE from_serialize(_)
\* AgentValue::from_serialize on a serde_json::Value
from_serialize(j) ==
    IF j.json = "string"
    THEN string(j.str)
    ELSE object([k \in DOMAIN j.fields |-> from_serialize(j.fields[k])])

RECURSIVE to_json(_)
\* AgentValue::to_json
to_json(v) ==
    IF v.kind = "string"
    THEN json_string(v.str)
    ELSE IF v.kind = "object"
    THEN json_object([k \in DOMAIN v.fields |-> to_json(v.fields[k])])
    ELSE [json |-> v.kind]

\* the fields pushed when the option holds a value
field(key, o) == IF is_some(o) THEN {<<key, o[1]>>} ELSE {}

\* fields.into_iter().collect(): the object built from (key, value) pairs
collect_fields(pairs) ==
    [k \in { p[1] : p \in pairs } |-> (CHOOSE p \in pairs : p[1] = k)[2]]

\* AgentValue::from_serialize(&call): ToolCall derives Serialize, and the id
\* of its function is skipped when None
serialize_call(call) ==
    object([function |->
        object(collect_fields(
            {<<"name", string(call.name)>>,
             <<"parameters", from_serialize(call.parameters)>>}
            \cup field("id", IF is_some(call.id) THEN Some(string(call.id[1])) ELSE None)))])

\* the conversion of a Message that leaves its id out
message_into_no_id(msg) ==
    object(collect_fields(
        {<<"role", string(msg.role)>>, <<"content", string(msg.content)>>}
        \cup field("thinking",
                   IF msg.thinking # "" THEN Some(string(msg.thinking)) ELSE None)
        \cup field("tool_calls",
                   IF is_some(msg.tool_calls)
                   THEN Some(array([i \in 1..Len(msg.tool_calls[1]) |->
                                       serialize_call(msg.tool_calls[1][i])]))
                   ELSE None)
        \cup field("tool_name",
                   IF is_some(msg.tool_name) THEN Some(string(msg.tool_name[1])) ELSE None)))

\* impl From<Message> for AgentValue
message_into(msg) ==
    object(collect_fields(
        {<<"role", string(msg.role)>>, <<"content", string(msg.content)>>}
        \cup field("id", IF is_some(msg.id) THEN Some(string(msg.id[1])) ELSE None)
        \cup field("thinking",
                   IF msg.thinking # "" THEN Some(string(msg.thinking)) ELSE None)
        \cup field("tool_calls",
                   IF is_some(msg.tool_calls)
                   THEN Some(array([i \in 1..Len(msg.tool_calls[1]) |->
                                       serialize_call(msg.tool_calls[1][i])]))
                   ELSE None)
        \cup field("tool_name",
                   IF is_some(msg.tool_name) THEN Some(string(msg.tool_name[1])) ELSE None)))

\* one element of 'tool_calls' in TryFrom<AgentValue> for Message: the id is
\* read from the element itself, name and parameters from its 'function'
parse_call(call_value) ==
    LET id == get_str(call_value, "id")
        function == get(call_value, "function")
    IN  IF ~is_some(function)
        THEN Err("InvalidValue")
        ELSE IF ~is_some(get_str(function[1], "name"))
        THEN Err("InvalidValue")
        ELSE IF ~is_some(get(function[1], "parameters"))
        THEN Err("InvalidValue")
        ELSE Ok([name |-> get_str(function[1], "name")[1],
                 parameters |-> to_json(get(function[1], "parameters")[1]),
                 id |-> id])

\* the role of a message object, read as a required string field
role_required(obj) == get_str(obj, "role")

\* the role of a message object: "user" when there is no string 'role'
role_or_default(obj) ==
    IF is_some(get_str(obj, "role")) THEN get_str(obj, "role") ELSE Some("user")

\* impl TryFrom<AgentValue> for Message
message_try_from(value) ==
    IF value.kind = "string"
    THEN Ok(Message("user", value.str))
    ELSE IF value.kind # "object"
    THEN Err("InvalidValue")
    ELSE
    LET role == role_or_default(value)
        content == get_str(value, "content")
        tool_name == get(value, "tool_name")
        tool_calls == get(value, "tool_calls")
        parsed == IF is_some(tool_calls) /\ is_some(as_array(tool_calls[1]))
                 THEN [i \in 1..Len(tool_calls[1].items) |->
                          parse_call(tool_calls[1].items[i])]
                 ELSE <<>>
    IN  IF ~is_some(role) \/ ~is_some(content)
        THEN Err("InvalidValue")
        ELSE IF is_some(tool_name) /\ ~is_some(as_str(tool_name[1]))
        THEN Err("InvalidValue")
        ELSE IF is_some(tool_calls) /\ ~is_some(as_array(tool_calls[1]))
        THEN Err("InvalidValue")
        ELSE IF \E i \in 1..Len(parsed) : ~parsed[i].ok
        THEN Err("InvalidValue")
        ELSE Ok([id |-> get_str(value, "id"),
                 role |-> role[1],
                 content |-> content[1],
                 thinking |-> IF is_some(get_str(value, "thinking"))
                              THEN get_str(value, "thinking")[1] ELSE "",
                 tool_calls |-> IF is_some(tool_calls)
                                THEN Some([i \in 1..Len(parsed) |-> parsed[i].value])
                                ELSE None,
                 tool_name |-> IF is_some(tool_name)
                               THEN Some(tool_name[1].str) ELSE None])

\* impl From<MessageHistory> for AgentValue
history_into(h) ==
    array([i \in 1..Len(h.messages) |-> message_into(h.messages[i])])

\* for v in arr { messages.push(v.clone().try_into()?) }
try_into_all(items) ==
    LET parsed == [i \in 1..Len(items) |-> message_try_from(items[i])]
    IN  IF \E i \in 1..Len(parsed) : ~parsed[i].ok
        THEN Err("InvalidValue")
        ELSE Ok([i \in 1..Len(parsed) |-> parsed[i].value])

\* from_value that puts the 'message' field before the 'history' elements
from_value_message_first(value) ==
    IF value.kind = "array"
    THEN LET elems == try_into_all(value.items)
         IN  IF elems.ok THEN Ok(new(elems.value, 0)) ELSE elems
    ELSE IF message_try_from(value).ok
    THEN Ok(new(<<message_try_from(value).value>>, 0))
    ELSE IF value.kind = "object"
    THEN LET arr == get_array(value, "history")
             hist == IF is_some(arr) THEN try_into_all(arr[1]) ELSE Ok(<<>>)
             msg == get(value, "message")
             last == IF is_some(msg) THEN try_into_all(<<msg[1]>>) ELSE Ok(<<>>)
         IN  IF ~hist.ok THEN hist
             ELSE IF ~last.ok THEN last
             ELSE IF last.value \o hist.value # <<>>
             THEN Ok(new(last.value \o hist.value, 0))
             ELSE Err("InvalidValue")
    ELSE Err("InvalidValue")

\* MessageHistory::from_value
from_value(value) ==
    IF value.kind = "array"
    THEN LET elems == try_into_all(value.items)
         IN  IF elems.ok THEN Ok(new(elems.value, 0)) ELSE elems
    ELSE IF message_try_from(value).ok
    THEN Ok(new(<<message_try_from(value).value>>, 0))
    ELSE IF value.kind = "object"
    THEN LET arr == get_array(value, "history")
             hist == IF is_some(arr) THEN try_into_all(arr[1]) ELSE Ok(<<>>)
             msg == get(value, "message")
             last == IF is_some(msg) THEN try_into_all(<<msg[1]>>) ELSE Ok(<<>>)
         IN  IF ~hist.ok THEN hist
             ELSE IF ~last.ok THEN last
             ELSE IF hist.value \o last.value # <<>>
             THEN Ok(new(hist.value \o last.value, 0))
             ELSE Err("InvalidValue")
    ELSE Err("InvalidValue")

----------------------------------------------------------------------------
(* SpecWire: one conversion chain.  A Message or a MessageHistory is          *)
(* converted to its wire shape, or an AgentValue arrives from outside; the    *)
(* value on the wire is then converted to a Message or to a MessageHistory.   *)

\* longest array of AgentValues tried as input
MaxWireItems == 2

\* the messages converted: those of the history, a tool result, and tool
\* calls with and without a tool-call id and parameters
WireMsgs ==
    HistMsgs \cup
    { ToolMessage("get_time", "2025-01-02 03:04:05"),
      [Message("assistant", "") EXCEPT
          !.tool_calls = Some(<<
              [ToolCall("get_weather",
                        json_object([location |-> json_string("San Francisco")]))
                  EXCEPT !.id = Some("call1")],
              ToolCall("get_time", json_object(<<>>))>>)] }

\* histories built by push alone: constructed empty, then one push per
\* message of a log
PushBuilt ==
    { push_all(set_include_system(new(<<>>, size), include), log) :
        size \in 0..MaxSize, include \in BOOLEAN,
        log \in SeqsUpTo(HistMsgs, MaxSize + 1) }

\* values used as array elements and as the 'message' field
WireElems ==
    { message_into(Message("system", "Be terse.")),
      message_into(Message("user", "Hi")),
      string("Hello"),
      integer(42) }

\* objects that are not well-formed messages
BadObjects ==
    { object([some_key |-> string("some_value")]),
      object([content |-> string("no role")]),
      object([role |-> string("assistant")]),
      object([role |-> integer(1), content |-> string("role is a number")]),
      object([role |-> string("user"), content |-> integer(1)]),
      object([role |-> string("tool"), content |-> string("x"), tool_name |-> integer(1)]),
      object([role |-> string("assistant"), content |-> string(""),
              tool_calls |-> string("get_time")]),
      object([role |-> string("assistant"), content |-> string(""),
              tool_calls |-> array(<<object([id |-> string("call1")])>>)]) }

\* the values that arrive from outside
WireValues ==
    { integer(42), unit, string("Hi") }
    \cup BadObjects
    \cup { array(items) : items \in SeqsUpTo(WireElems, MaxWireItems) }
    \cup { object(collect_fields(field("history", h) \cup field("message", m))) :
             h \in {None, Some(string("not an array"))}
                   \cup { Some(array(items)) : items \in SeqsUpTo(WireElems, MaxWireItems) },
             m \in {None} \cup { Some(e) : e \in WireElems } }

InitWire ==
    /\ wire_in \in
          { [type |-> "message", message |-> m] : m \in WireMsgs }
          \cup { [type |-> "history", history |-> h] : h \in PushBuilt }
          \cup { [type |-> "value", value |-> v] : v \in WireValues }
    /\ wire_value = IF wire_in.type = "value" THEN Some(wire_in.value) ELSE None
    /\ wire_out = None
    /\ HistIdle
    /\ MfpIdle
    /\ MsgIdle
    /\ ToolIdle
    /\ ChatIdle
    /\ MhaIdle
    /\ ListIdle
    /\ FlowIdle

\* let value: AgentValue = msg.into()
MessageInto ==
    /\ wire_in.type = "message"
    /\ wire_value = None
    /\ wire_value' = Some(message_into(wire_in.message))
    /\ UNCHANGED <<wire_in, wire_out, histVars, mfpVars, toolVars, chatVars, mhaVars, listVars, msgVars, flowVars>>

\* let value: AgentValue = history.into()
HistoryInto ==
    /\ wire_in.type = "history"
    /\ wire_value = None
    /\ wire_value' = Some(history_into(wire_in.history))
    /\ UNCHANGED <<wire_in, wire_out, histVars, mfpVars, toolVars, chatVars, mhaVars, listVars, msgVars, flowVars>>

\* let msg: Result<Message, AgentError> = value.try_into()
MessageTryFrom ==
    /\ is_some(wire_value)
    /\ wire_out = None
    /\ wire_out' = Some([as |-> "message", result |-> message_try_from(wire_value[1])])
    /\ UNCHANGED <<wire_in, wire_value, histVars, mfpVars, toolVars, chatVars, mhaVars, listVars, msgVars, flowVars>>

\* MessageHistory::from_value(value)
HistoryFromValue ==
    /\ is_some(wire_value)
    /\ wire_out = None
    /\ wire_out' = Some([as |-> "history", result |-> from_value(wire_value[1])])
    /\ UNCHANGED <<wire_in, wire_value, histVars, mfpVars, toolVars, chatVars, mhaVars, listVars, msgVars, flowVars>>

NextWire ==
    \/ MessageInto
    \/ HistoryInto
    \/ MessageTryFrom
    \/ HistoryFromValue

SpecWire == InitWire /\ [][NextWire]_vars

----------------------------------------------------------------------------
(* Claims about the wire shapes *)

\* the roles, contents and ids of a list of messages, in order
RoleContentId(msgs) ==
    [i \in 1..Len(msgs) |-> <<msgs[i].role, msgs[i].content, msgs[i].id>>]

\* a push-built history went to its wire shape and through from_value
HistoryRoundTrip ==
    /\ wire_in.type = "history"
    /\ is_some(wire_out)
    /\ wire_out[1].as = "history"

\* C14 as stated: for a history built purely from push calls, converting it
\* to its wire shape and passing that to from_value yields a history whose
\* messages() has the same roles, contents and ids in the same order as
\* messages() of the original.
C14_RoundTripMessages ==
    HistoryRoundTrip =>
        /\ wire_out[1].result.ok
        /\ RoleContentId(messages(wire_out[1].result.value))
             = RoleContentId(messages(wire_in.history))

\* C14 amended: the history that comes back has, as its messages(), the
\* roles, contents and ids of the stored messages of the original in the same
\* order; that is messages() of the original unless the original has
\* include_system set and a system message retained, which the wire shape
\* leaves out.
C14_RoundTripStored ==
    HistoryRoundTrip =>
        /\ wire_out[1].result.ok
        /\ RoleContentId(messages(wire_out[1].result.value))
             = RoleContentId(wire_in.history.messages)
        /\ (~wire_in.history.include_system \/ ~is_some(wire_in.history.system_message))
             => RoleContentId(messages(wire_out[1].result.value))
                 = RoleContentId(messages(wire_in.history))

\* a full bounded history whose last message was coalesced under an id made
\* the round trip
C14_Witness ==
    /\ HistoryRoundTrip
    /\ wire_out[1].result.ok
    /\ wire_in.history.max_size = MaxSize
    /\ Len(wire_in.history.messages) = MaxSize
    /\ Last(wire_in.history.messages).id = Some("m1")
    /\ Last(wire_in.history.messages).role = "user"
    /\ Last(wire_in.history.messages).content = "Hello, updated!"

\* a Message went to its wire object and back
MessageRoundTrip ==
    /\ wire_in.type = "message"
    /\ is_some(wire_out)
    /\ wire_out[1].as = "message"

\* C16: converting a Message to its wire object and back yields a Message
\* with the same role, content, id, thinking and tool_name, and a tool_calls
\* list with the same entries in order, each with the same name, parameters
\* and tool-call id.
C16_MessageRoundTrip ==
    MessageRoundTrip =>
        /\ wire_out[1].result.ok
        /\ LET m == wire_in.message
               r == wire_out[1].result.value
           IN  /\ r.role = m.role
               /\ r.content = m.content
               /\ r.id = m.id
               /\ r.thinking = m.thinking
               /\ r.tool_name = m.tool_name
               /\ is_some(r.tool_calls) = is_some(m.tool_calls)
               /\ is_some(m.tool_calls) =>
                    /\ Len(r.tool_calls[1]) = Len(m.tool_calls[1])
                    /\ \A i \in 1..Len(m.tool_calls[1]) :
                          /\ r.tool_calls[1][i].name = m.tool_calls[1][i].name
                          /\ r.tool_calls[1][i].parameters = m.tool_calls[1][i].parameters
                          /\ r.tool_calls[1][i].id = m.tool_calls[1][i].id

\* an object value from outside was converted to a Message
ObjectToMessage ==
    /\ wire_in.type = "value"
    /\ wire_in.value.kind = "object"
    /\ is_some(wire_out)
    /\ wire_out[1].as = "message"

\* C17 as stated: converting an object value to a Message fails with
\* InvalidValue whenever the object lacks a string 'role' field or lacks a
\* string 'content' field; no Message is produced from such an object.
C17_RoleAndContentRequired ==
    (/\ ObjectToMessage
     /\ \/ ~is_some(get_str(wire_in.value, "role"))
        \/ ~is_some(get_str(wire_in.value, "content")))
    => wire_out[1].result = Err("InvalidValue")

\* C17 amended: the conversion fails with InvalidValue, producing no Message,
\* whenever the object lacks a string 'content' field; from an object that
\* has one and lacks a string 'role' field it produces a Message with role
\* "user" and that content (when it carries no tool_name or tool_calls).
C17_ContentRequired ==
    ObjectToMessage =>
        LET v == wire_in.value
        IN  /\ ~is_some(get_str(v, "content"))
                => wire_out[1].result = Err("InvalidValue")
            /\ (/\ is_some(get_str(v, "content"))
                /\ ~is_some(get_str(v, "role"))
                /\ ~is_some(get(v, "tool_name"))
                /\ ~is_some(get(v, "tool_calls")))
                => /\ wire_out[1].result.ok
                   /\ wire_out[1].result.value.role = "user"
                   /\ wire_out[1].result.value.content = get_str(v, "content")[1]

\* an object with a role and a content that is not a string was refused
C17_Witness ==
    /\ ObjectToMessage
    /\ is_some(get_str(wire_in.value, "role"))
    /\ is_some(get(wire_in.value, "content"))
    /\ ~is_some(get_str(wire_in.value, "content"))
    /\ wire_out[1].result = Err("InvalidValue")

\* a value from outside that is not message-shaped went through from_value
ValueToHistory ==
    /\ wire_in.type = "value"
    /\ ~message_try_from(wire_in.value).ok
    /\ is_some(wire_out)
    /\ wire_out[1].as = "history"

\* the elements of the 'history' array of an object, none when it has none
HistoryItems(v) ==
    IF is_some(get_array(v, "history")) THEN get_array(v, "history")[1] ELSE <<>>

\* the 'message' field of an object as a list of no or one element
MessageItem(v) ==
    IF is_some(get(v, "message")) THEN <<get(v, "message")[1]>> ELSE <<>>

\* an object with a 'history' array and/or a 'message' field, every element
\* of which is message-shaped
HistoryShaped(v) ==
    /\ v.kind = "object"
    /\ is_some(get_array(v, "history")) \/ is_some(get(v, "message"))
    /\ \A i \in 1..Len(HistoryItems(v) \o MessageItem(v)) :
          message_try_from((HistoryItems(v) \o MessageItem(v))[i]).ok

\* the messages from_value is to yield for such an object
Concatenated(v) ==
    [i \in 1..Len(HistoryItems(v) \o MessageItem(v)) |->
        message_try_from((HistoryItems(v) \o MessageItem(v))[i]).value]

\* C18 as stated: from_value on an object carrying a 'history' array and/or a
\* 'message' field (and not itself message-shaped) yields the history
\* elements in their order followed by the message as the last element; a
\* value matching none of the accepted shapes fails with InvalidValue.
C18_HistoryThenMessage ==
    ValueToHistory =>
        LET v == wire_in.value
        IN  /\ HistoryShaped(v)
                => /\ wire_out[1].result.ok
                   /\ wire_out[1].result.value.messages = Concatenated(v)
            /\ (/\ v.kind # "array"
                /\ ~(/\ v.kind = "object"
                     /\ is_some(get_array(v, "history")) \/ is_some(get(v, "message"))))
                => wire_out[1].result = Err("InvalidValue")

\* C18 amended: for such an object from_value yields the history elements in
\* their order followed by the message as the last element when that makes at
\* least one message; when it makes none (an empty 'history' array and no
\* 'message' field) from_value fails with InvalidValue, as it does for a value
\* matching none of the accepted shapes.
C18_HistoryThenMessageNonEmpty ==
    ValueToHistory =>
        LET v == wire_in.value
        IN  /\ (HistoryShaped(v) /\ Concatenated(v) # <<>>)
                => /\ wire_out[1].result.ok
                   /\ wire_out[1].result.value.messages = Concatenated(v)
            /\ (HistoryShaped(v) /\ Concatenated(v) = <<>>)
                => wire_out[1].result = Err("InvalidValue")
            /\ (/\ v.kind # "array"
                /\ ~(/\ v.kind = "object"
                     /\ is_some(get_array(v, "history")) \/ is_some(get(v, "message"))))
                => wire_out[1].result = Err("InvalidValue")

\* an object with a history of MaxWireItems elements and a message came out
\* as one history, the message last
C18_Witness ==
    /\ ValueToHistory
    /\ HistoryShaped(wire_in.value)
    /\ Len(HistoryItems(wire_in.value)) = MaxWireItems
    /\ MessageItem(wire_in.value) = <<message_into(Message("user", "Hi"))>>
    /\ HistoryItems(wire_in.value)[1] # MessageItem(wire_in.value)[1]
    /\ wire_out[1].result.ok
    /\ Len(wire_out[1].result.value.messages) = MaxWireItems + 1
    /\ Last(wire_out[1].result.value.messages) = Message("user", "Hi")

----------------------------------------------------------------------------
(* SpecAgent: the Message History agent (common.rs) and an agent downstream  *)
(* of its message_history pin, which reads the value with from_value         *)
(* (ollama.rs:273, openai.rs:248).                                           *)

\* the values that arrive on the message pin
MhaValues ==
    { message_into(m) : m \in HistMsgs } \cup { string("Hello"), integer(42) }

Emitted(history_out, message_history_out, result) ==
    [history |-> history_out, message_history |-> message_history_out,
     result |-> result]

InitAgent ==
    /\ MhaIdle
    /\ ListIdle
    /\ WireIdle
    /\ HistIdle
    /\ MfpIdle
    /\ MsgIdle
    /\ ToolIdle
    /\ ChatIdle
    /\ FlowIdle

\* MessageHistoryAgent::process, pin reset
MhaReset ==
    /\ mha_history' = new(<<>>, 0)
    /\ mha_preamble_included' = FALSE
    /\ mha_out' = Emitted(None, None, "ok")
    /\ mha_period' = NewMhaPeriod
    /\ wire_value' = None
    /\ wire_out' = None
    /\ UNCHANGED <<wire_in, histVars, mfpVars, toolVars, chatVars, listVars, msgVars, flowVars>>

\* MessageHistoryAgent::process, any other pin: history_size and preamble are
\* the configs read by this call
MhaProcess(value, history_size, preamble) ==
    LET sized == set_max_size(mha_history, history_size)
        seeded == IF ~mha_preamble_included
                  THEN set_preamble(sized, preamble) ELSE sized
        message == message_try_from(value)
        pushed_to == push(seeded, message.value)
        period == IF ~mha_preamble_included /\ preamble # <<>>
                  THEN [mha_period EXCEPT !.seeds = @ + 1,
                                          !.late = @ \/ mha_period.pushed]
                  ELSE mha_period
    IN  /\ mha_preamble_included' = TRUE
        /\ mha_period' = [period EXCEPT !.pushed = @ \/ message.ok]
        /\ IF ~message.ok
           THEN /\ mha_history' = seeded
                /\ mha_out' = Emitted(None, None, "InvalidValue")
           ELSE /\ Len(pushed_to.messages) <= MaxLen
                /\ mha_history' = pushed_to
                /\ mha_out' =
                     Emitted(Some(history_into(pushed_to)),
                             IF message.value.role # "user"
                             THEN None
                             ELSE Some(object(
                                    [message |-> message_into(message.value),
                                     history |->
                                        array([i \in 1..Len(messages(pushed_to)) |->
                                                 message_into(messages(pushed_to)[i])])])),
                             "ok")
        /\ Len(seeded.messages) <= MaxLen
        /\ wire_value' = None
        /\ wire_out' = None
        /\ UNCHANGED <<wire_in, histVars, mfpVars, toolVars, chatVars, listVars, msgVars, flowVars>>

\* the agent downstream: MessageHistory::from_value(value) on what the
\* message_history pin carried
ReceiveMessageHistory ==
    /\ is_some(mha_out.message_history)
    /\ wire_out = None
    /\ wire_value' = mha_out.message_history
    /\ wire_out' = Some([as |-> "history",
                         result |-> from_value(mha_out.message_history[1])])
    /\ UNCHANGED <<wire_in, mhaVars, histVars, mfpVars, toolVars, chatVars, listVars, msgVars, flowVars>>

NextAgent ==
    \/ MhaReset
    \/ \E value \in MhaValues, history_size \in 0..MaxSize :
          \* the preamble config is read by the first call only
          \E preamble \in IF mha_preamble_included
                           THEN {<<>>}
                           ELSE SeqsUpTo(PreambleMsgs, MaxPreamble) :
            MhaProcess(value, history_size, preamble)
    \/ ReceiveMessageHistory

SpecAgent == InitAgent /\ [][NextAgent]_vars

----------------------------------------------------------------------------
(* SpecSeed: one agent that takes a preamble config, a chat agent or the     *)
(* Message History agent, driven with message and reset inputs               *)

InitSeed ==
    /\ \E agent \in ChatAgents : ChatNew(agent)
    /\ Registered(ToolNames)
    /\ MhaIdle
    /\ ListIdle
    /\ WireIdle
    /\ HistIdle
    /\ MfpIdle
    /\ MsgIdle
    /\ FlowIdle

\* the inputs go to the chat agent; the registry stays as it is
SeedChat ==
    /\ MhaIdle
    /\ \/ ChatReset
       \/ \E batch \in NonEmptySeqsUpTo(InboundMsgs, MaxBatch), preamble \in PreambleRead :
             ChatReceive(batch, preamble, FALSE)
       \/ \E preamble \in PreambleRead : ChatInvalid(preamble)
       \/ ChatRequest
       \/ \E batch \in SeqsUpTo({ ToolCall(n, json_object(<<>>)) : n \in ToolNames }, MaxCalls) :
             ChatResponse(batch)
       \/ ChatProviderError
       \/ ChatToolOk
       \/ ChatToolFail
       \/ ChatToolsDone

\* the values that arrive on the Message History agent's message pin here:
\* the chat agents' inbound messages, and one that is no message
SeedValues == { message_into(m) : m \in InboundMsgs } \cup { integer(42) }

\* the inputs go to the Message History agent, unbounded or bounded to one
\* message; the preamble config is read by the first call of a period only
SeedHistory ==
    /\ ChatIdle
    /\ \/ MhaReset
       \/ \E value \in SeedValues, history_size \in {0, 1} :
             \E preamble \in IF mha_preamble_included THEN {<<>>} ELSE ChatPreambles :
               MhaProcess(value, history_size, preamble)

NextSeed == SeedChat \/ SeedHistory

SpecSeed == InitSeed /\ [][NextSeed]_vars

\* C25: for any sequence of message and reset inputs to a chat or history
\* agent, the preamble is seeded into the history at most once between
\* consecutive resets (and at most once before the first reset), and it is
\* seeded before the first inbound message of that period is pushed.
C25_SeededOnceFirst ==
    /\ chat_period.seeds <= 1
    /\ ~chat_period.late
    /\ mha_period.seeds <= 1
    /\ ~mha_period.late

\* a chat agent whose preamble was seeded once has taken its second message
\* of the period and has made a request
C25_Witness ==
    /\ chat_period.seeds = 1
    /\ chat_period.preamble # <<>>
    /\ Len(chat_period.received) = 2
    /\ chat_requests = 1
    /\ chat_pc = "await"
    /\ SubSeq(chat_history.messages, 1, Len(chat_period.preamble)) = chat_period.preamble

\* C15: the {message, history} object that the Message History agent emits
\* after a user message round-trips through from_value: the result is the
\* conversation's messages in chronological order, the newest message
\* appearing exactly once, as the last element.
C15_NewestOnce ==
    (is_some(mha_out.message_history) /\ is_some(wire_out))
    => /\ wire_out[1].result.ok
       /\ RoleContentId(wire_out[1].result.value.messages)
            = RoleContentId(messages(mha_history))

----------------------------------------------------------------------------
(* SpecList: listing the registered tools by patterns (tool.rs), by the List *)
(* Tools agent and by the tools config of the chat agents.  A patterns text  *)
(* is the sequence of its lines; the empty text has no line.  A pattern is a *)
(* literal that may start with ^ and end with $; "(" is not a valid regex.   *)
(* A listing leaves the registry as it is, so a run makes one listing, after *)
(* any number of unregistrations.                                            *)

\* most lines in a patterns text
MaxPatternLines == 2

PatternLines == {"", "  ", "time", " ^get_w", "e$ ", "^time$", "("}

RECURSIVE trim_start(_)
\* str::trim, the leading part
trim_start(s) ==
    IF Len(s) > 0 /\ SubSeq(s, 1, 1) = " "
    THEN trim_start(SubSeq(s, 2, Len(s))) ELSE s

RECURSIVE trim_end(_)
\* str::trim, the trailing part
trim_end(s) ==
    IF Len(s) > 0 /\ SubSeq(s, Len(s), Len(s)) = " "
    THEN trim_end(SubSeq(s, 1, Len(s) - 1)) ELSE s

\* str::trim
trim(s) == trim_end(trim_start(s))

\* Regex::new(pattern).is_ok()
is_valid(pattern) ==
    \A i \in 1..Len(pattern) : SubSeq(pattern, i, i) # "("

\* Regex::is_match: the pattern is searched for anywhere in the name unless
\* it is anchored
is_match(pattern, name) ==
    LET at_start == Len(pattern) > 0 /\ SubSeq(pattern, 1, 1) = "^"
        rest == IF at_start THEN SubSeq(pattern, 2, Len(pattern)) ELSE pattern
        at_end == Len(rest) > 0 /\ SubSeq(rest, Len(rest), Len(rest)) = "$"
        literal == IF at_end THEN SubSeq(rest, 1, Len(rest) - 1) ELSE rest
        found_at == { i \in 1..(Len(name) - Len(literal) + 1) :
                        SubSeq(name, i, i + Len(literal) - 1) = literal }
    IN  \E i \in found_at :
            /\ at_start => i = 1
            /\ at_end => i + Len(literal) - 1 = Len(name)

\* list_tool_infos: the names of the registered entries
list_tool_infos == { n \in ToolNames : tools[n] # 0 }

\* patterns.lines().map(trim).filter(not empty)
pattern_lines(text) ==
    SelectSeq([i \in 1..Len(text) |-> trim(text[i])], LAMBDA line : line # "")

\* list_tool_infos_patterns that keeps the entries matching every pattern
list_tool_infos_patterns_match_all(text) ==
    LET patterns == pattern_lines(text)
    IN  IF \E i \in 1..Len(patterns) : ~is_valid(patterns[i])
        THEN Err("regex::Error")
        ELSE Ok({ n \in list_tool_infos :
                    \A i \in 1..Len(patterns) : is_match(patterns[i], n) })

\* list_tool_infos_patterns
list_tool_infos_patterns(text) ==
    LET patterns == pattern_lines(text)
    IN  IF \E i \in 1..Len(patterns) : ~is_valid(patterns[i])
        THEN Err("regex::Error")
        ELSE Ok({ n \in list_tool_infos :
                    \E i \in 1..Len(patterns) : is_match(patterns[i], n) })

\* .map_err(|e| AgentError::...(...))
map_err(result, e) == IF result.ok THEN result ELSE Err(e)

Listing(by, text, result) ==
    [by |-> by, patterns |-> text, registered |-> list_tool_infos, result |-> result]

InitList ==
    /\ \E S \in SUBSET ToolNames : Registered(S)
    /\ ListIdle
    /\ HistIdle
    /\ MfpIdle
    /\ MsgIdle
    /\ ChatIdle
    /\ WireIdle
    /\ MhaIdle
    /\ FlowIdle

\* a direct call of list_tool_infos_patterns
ListPatterns(text) ==
    /\ ListIdle
    /\ listed' = Listing("list_tool_infos_patterns", text, list_tool_infos_patterns(text))
    /\ UNCHANGED <<histVars, mfpVars, toolVars, chatVars, wireVars, mhaVars, msgVars, flowVars>>

\* ListToolsAgent::process
ListToolsProcess(text) ==
    /\ ListIdle
    /\ listed' = Listing("ListToolsAgent", text,
                         IF text # <<>>
                         THEN map_err(list_tool_infos_patterns(text), "InvalidValue")
                         ELSE Ok(list_tool_infos))
    /\ UNCHANGED <<histVars, mfpVars, toolVars, chatVars, wireVars, mhaVars, msgVars, flowVars>>

\* the chat agents' process(): tool_infos from the tools config
ChatToolInfos(text) ==
    /\ ListIdle
    /\ listed' = Listing("chat", text,
                         IF text = <<>>
                         THEN Ok({})
                         ELSE map_err(list_tool_infos_patterns(text), "InvalidConfig"))
    /\ UNCHANGED <<histVars, mfpVars, toolVars, chatVars, wireVars, mhaVars, msgVars, flowVars>>

NextList ==
    \/ \E text \in SeqsUpTo(PatternLines, MaxPatternLines) : ListPatterns(text)
    \/ \E text \in SeqsUpTo(PatternLines, MaxPatternLines) : ListToolsProcess(text)
    \/ \E text \in SeqsUpTo(PatternLines, MaxPatternLines) : ChatToolInfos(text)
    \/ \E n \in ToolNames : UnregisterTool(n)

SpecList == InitList /\ [][NextList]_vars

\* the registered entries, at the time of the listing, whose name matches at
\* least one pattern of the text
Matching ==
    { n \in listed.registered :
        \E i \in 1..Len(pattern_lines(listed.patterns)) :
            is_match(pattern_lines(listed.patterns)[i], n) }

\* every pattern of the text is a valid regular expression
AllValid ==
    \A i \in 1..Len(pattern_lines(listed.patterns)) :
        is_valid(pattern_lines(listed.patterns)[i])

\* C20 as stated: listing tools with a pattern set that holds no pattern
\* (empty text or only blank lines) returns every registered entry; with at
\* least one pattern it returns exactly the registered entries whose name
\* matches at least one pattern.
C20_NoPatternListsAll ==
    (listed.by # "none" /\ AllValid)
    => listed.result =
         Ok(IF pattern_lines(listed.patterns) = <<>>
            THEN listed.registered ELSE Matching)

\* C20 amended: the List Tools agent given the empty text returns every
\* registered entry; every other listing whose patterns are valid (the agent
\* given a non-empty text, the tools config of a chat agent,
\* list_tool_infos_patterns itself) returns exactly the registered entries
\* whose name matches at least one pattern, which is no entry when the text
\* holds no pattern (only blank lines or, but for the agent, empty); with a
\* pattern that is not a valid regular expression the listing fails.
C20_EmptyTextListsAll ==
    listed.by # "none"
    => IF listed.by = "ListToolsAgent" /\ listed.patterns = <<>>
       THEN listed.result = Ok(listed.registered)
       ELSE IF AllValid
       THEN /\ listed.result = Ok(Matching)
            /\ pattern_lines(listed.patterns) = <<>> => listed.result = Ok({})
       ELSE ~listed.result.ok

\* with both tools registered the List Tools agent was given two patterns and
\* returned one of the tools
C20_Witness ==
    /\ listed.by = "ListToolsAgent"
    /\ listed.registered = ToolNames
    /\ Len(pattern_lines(listed.patterns)) = MaxPatternLines
    /\ listed.result = Ok({"get_weather"})

----------------------------------------------------------------------------
(* The Preamble agent and the Messages agent  (message.rs).  Their values    *)
(* are AgentValues that hold a Message, arrays of them, and others.          *)

\* message inputs over a period of the Preamble agent
MaxPreInputs == 3

\* an AgentValue that holds the Message m
message_value(m) == [kind |-> "message", message |-> m]

\* AgentValue::to_message
to_message(value) == IF value.kind = "message" THEN Some(value.message) ELSE None

\* the values that arrive on the message pin of the Preamble agent
PreValues == { message_value(m) : m \in InboundMsgs } \cup { integer(42) }

\* the preamble configs: none, or an array of message values
PreConfigs ==
    { None } \cup
    { Some([i \in 1..Len(p) |-> message_value(p[i])]) : p \in SeqsUpTo(PreambleMsgs, MaxPreamble) }

\* the record of a process() call: the pin, the Message the value held if
\* any, the preamble the agent had, the number of Messages received since
\* creation or the last reset, and the value put on the messages pin if any
PreCall(pin, message, preamble, nth, out) ==
    [pin |-> pin, message |-> message, preamble |-> preamble, nth |-> nth, out |-> out]

InitPreamble ==
    /\ pre_preamble \in PreConfigs
    /\ pre_prepended = FALSE
    /\ pre_last = PreCall("none", None, pre_preamble, 0, None)
    /\ msgs_max_size = 0
    /\ msgs_messages = <<>>
    /\ msgs_last = NoCall
    /\ HistIdle
    /\ MfpIdle
    /\ ToolIdle
    /\ ChatIdle
    /\ WireIdle
    /\ MhaIdle
    /\ ListIdle
    /\ FlowIdle

\* what no step of the Preamble agent touches
PreOthers == <<msgs_max_size, msgs_messages, msgs_last,
               histVars, mfpVars, toolVars, chatVars, wireVars, mhaVars, listVars, flowVars>>

\* PreambleAgent::configs_changed
PreConfigsChanged(preamble) ==
    /\ pre_preamble' = preamble
    /\ UNCHANGED <<pre_prepended, pre_last, PreOthers>>

\* a reset that leaves the prepended flag as it is
PreReset_keep_flag ==
    /\ pre_last' = PreCall("reset", None, pre_preamble, 0, None)
    /\ UNCHANGED <<pre_preamble, pre_prepended, PreOthers>>

\* PreambleAgent::process, pin reset
PreReset ==
    /\ pre_prepended' = FALSE
    /\ pre_last' = PreCall("reset", None, pre_preamble, 0, None)
    /\ UNCHANGED <<pre_preamble, PreOthers>>

\* PreambleAgent::process, pin message
PreProcess(value) ==
    LET message == to_message(value)
    IN  /\ pre_last.nth < MaxPreInputs
        /\ IF message = None
           THEN /\ pre_last' = PreCall("message", None, pre_preamble, pre_last.nth, None)
                /\ UNCHANGED pre_prepended
           ELSE /\ pre_prepended' = TRUE
                /\ pre_last' =
                     PreCall("message", message, pre_preamble, pre_last.nth + 1,
                             Some(IF pre_prepended \/ pre_preamble = None
                                  THEN <<message_value(message[1])>>
                                  ELSE Append(pre_preamble[1], message_value(message[1]))))
        /\ UNCHANGED <<pre_preamble, PreOthers>>

NextPreamble ==
    \/ \E preamble \in PreConfigs : PreConfigsChanged(preamble)
    \/ PreReset
    \/ \E value \in PreValues : PreProcess(value)

SpecPreamble == InitPreamble /\ [][NextPreamble]_vars

\* the messages of a preamble config, none when there is no config
Configured(preamble) == IF preamble = None THEN <<>> ELSE preamble[1]

\* C26: for any sequence of message and reset inputs the Preamble agent
\* prepends the configured preamble to the output of exactly the first
\* message received since creation or since the most recent reset; the output
\* for every later message is that message alone.
C26_PrependsFirstOnly ==
    (pre_last.pin = "message" /\ is_some(pre_last.message)) =>
        pre_last.out =
            Some((IF pre_last.nth = 1 THEN Configured(pre_last.preamble) ELSE <<>>)
                 \o <<message_value(pre_last.message[1])>>)

\* the first message of a period came out behind a preamble of MaxPreamble
\* messages
C26_Witness ==
    /\ pre_last.pin = "message"
    /\ pre_last.nth = 1
    /\ pre_prepended
    /\ is_some(pre_last.out)
    /\ Len(pre_last.out[1]) = MaxPreamble + 1
    /\ pre_last.out[1][MaxPreamble + 1] = message_value(Message("user", "Hi"))

----------------------------------------------------------------------------
(* SpecMessages: the Messages agent  (message.rs) *)

\* messages in one inbound value of the Messages agent
MaxMsgsBatch == 2
\* messages received over a period of the Messages agent
MaxReceived == 3

\* the Messages the agent is driven with: one without an id, and two states
\* of a streamed one
MsgsMsgs ==
    { Message("user", "Hi"),
      [Message("assistant", "Hel") EXCEPT !.id = Some("s1")],
      [Message("assistant", "Hello") EXCEPT !.id = Some("s1")] }

\* the values that arrive on the message pin: a Message, an array of them
\* (the empty one included), and values that hold something else
MsgsValues ==
    { message_value(m) : m \in MsgsMsgs } \cup
    { array([i \in 1..Len(b) |-> message_value(b[i])]) : b \in SeqsUpTo(MsgsMsgs, MaxMsgsBatch) } \cup
    { integer(42), array(<<integer(42)>>) }

\* AgentValue::to_message_value
to_message_value(value) ==
    IF value.kind = "message" THEN Some(value)
    ELSE IF value.kind = "array" /\ \A i \in 1..Len(value.items) : value.items[i].kind = "message"
    THEN Some(value)
    ELSE None

\* the cut to max_size that keeps the oldest messages
keep_first(stored, max_size) ==
    IF max_size > 0 /\ Len(stored) > max_size
    THEN SubSeq(stored, 1, max_size)
    ELSE stored

\* MessagesAgent::process, the cut to max_size: messages.skip(mlen - max_size)
keep_last(stored, max_size) ==
    IF max_size > 0 /\ Len(stored) > max_size
    THEN SubSeq(stored, Len(stored) - max_size + 1, Len(stored))
    ELSE stored

\* MessagesAgent::process, from first_in_message_id to messages.append: the
\* last stored message is dropped when the first inbound one carries its id
append_or_update(stored, in_messages) ==
    LET first_in_message_id == in_messages[1].message.id
    IN  IF /\ Len(stored) > 0
           /\ is_some(first_in_message_id)
           /\ Last(stored).message.id = first_in_message_id
        THEN Front(stored) \o in_messages
        ELSE stored \o in_messages

\* the record of a process() call: the pin, the value put on the messages
\* pin if any, and the messages that came in since creation or the last
\* reset, an update of a message taking its place
MsgsCall(pin, out, log) == [pin |-> pin, out |-> out, log |-> log]

InitMessages ==
    /\ msgs_max_size \in 0..MaxSize
    /\ msgs_messages = <<>>
    /\ msgs_last = MsgsCall("none", None, <<>>)
    /\ pre_preamble = None
    /\ pre_prepended = FALSE
    /\ pre_last = NoCall
    /\ HistIdle
    /\ MfpIdle
    /\ ToolIdle
    /\ ChatIdle
    /\ WireIdle
    /\ MhaIdle
    /\ ListIdle
    /\ FlowIdle

\* what no step of the Messages agent touches
MsgsOthers == <<pre_preamble, pre_prepended, pre_last,
                histVars, mfpVars, toolVars, chatVars, wireVars, mhaVars, listVars, flowVars>>

\* MessagesAgent::process, pin reset
MsgsReset ==
    /\ msgs_messages' = <<>>
    /\ msgs_last' = MsgsCall("reset", Some(array(<<>>)), <<>>)
    /\ UNCHANGED <<msgs_max_size, MsgsOthers>>

\* MessagesAgent::process, pin message
MsgsProcess(value) ==
    LET in_message == to_message_value(value)
        in_messages == IF in_message[1].kind = "array"
                       THEN in_message[1].items ELSE <<in_message[1]>>
        stored == keep_last(append_or_update(msgs_messages, in_messages), msgs_max_size)
    IN  /\ IF in_message = None
           THEN /\ msgs_last' = [msgs_last EXCEPT !.pin = "message", !.out = None]
                /\ UNCHANGED msgs_messages
           ELSE IF in_messages = <<>>
           THEN /\ msgs_last' = [msgs_last EXCEPT !.pin = "message", !.out = None]
                /\ UNCHANGED msgs_messages
           ELSE /\ Len(msgs_last.log) + Len(in_messages) <= MaxReceived
                /\ msgs_messages' = stored
                /\ msgs_last' = MsgsCall("message", Some(array(stored)),
                                         append_or_update(msgs_last.log, in_messages))
        /\ UNCHANGED <<msgs_max_size, MsgsOthers>>

NextMessages ==
    \/ MsgsReset
    \/ \E value \in MsgsValues : MsgsProcess(value)

SpecMessages == InitMessages /\ [][NextMessages]_vars

\* the n most recent entries of a list
MostRecent(log, n) == SubSeq(log, Max({1, Len(log) - n + 1}), Len(log))

\* C27: for the Messages agent with a fixed max_size = N > 0, after any
\* sequence of message inputs (single messages or batches, with or without
\* ids) and reset inputs the stored list never has more than N entries and
\* holds the most recent ones; immediately after a reset input the stored
\* list is empty and an empty list is emitted.
C27_BoundedMostRecent ==
    msgs_max_size > 0 =>
        /\ Len(msgs_messages) <= msgs_max_size
        /\ msgs_messages = MostRecent(msgs_last.log, msgs_max_size)
        /\ msgs_last.pin = "reset" =>
              /\ msgs_messages = <<>>
              /\ msgs_last.out = Some(array(<<>>))

\* a batch whose first message updated the last stored one was cut to
\* max_size: the oldest message left the list
C27_Witness ==
    /\ msgs_max_size = MaxSize
    /\ msgs_last.pin = "message"
    /\ Len(msgs_last.log) = MaxSize + 1
    /\ Len(msgs_messages) = MaxSize
    /\ msgs_messages[1].message = [Message("assistant", "Hello") EXCEPT !.id = Some("s1")]
    /\ msgs_last.log[1].message = Message("user", "Hi")
    /\ msgs_last.out = Some(array(msgs_messages))

----------------------------------------------------------------------------
(* SpecCallTools: tool::call_tools  (tool.rs) *)

\* the values a tool body returns
ToolValues == { unit, string("12:00"), object([temp |-> string("20")]) }

\* the batches call_tools is given
CallBatches == SeqsUpTo({ ToolCall(n, json_object(<<>>)) : n \in ToolNames }, MaxCalls)

RECURSIVE to_string(_)
\* serde_json::Value::to_string: compact JSON text (objects of the model have
\* one field at most, so the order of keys does not show)
to_string(j) ==
    IF j.json = "string" THEN "\"" \o j.str \o "\""
    ELSE IF j.json = "object"
    THEN LET keys == SeqOf(DOMAIN j.fields)
             member(i) == (IF i > 1 THEN "," ELSE "") \o
                          "\"" \o keys[i] \o "\":" \o to_string(j.fields[keys[i]])
             RECURSIVE members(_)
             members(i) == IF i > Len(keys) THEN "" ELSE member(i) \o members(i + 1)
         IN  "{" \o members(1) \o "}"
    ELSE IF j.json = "unit" THEN "null"
    ELSE j.json

\* the tool message with the value's text unquoted
tool_response_display(call, tool_resp) ==
    ToolMessage(call.name,
                IF tool_resp.kind = "string" THEN tool_resp.str
                ELSE to_string(to_json(tool_resp)))

\* call_tools, the push of one round:
\* Message::tool(call.function.name, tool_resp.to_json().to_string())
tool_response(call, tool_resp) ==
    ToolMessage(call.name, to_string(to_json(tool_resp)))

InitCallTools ==
    /\ \E S \in SUBSET ToolNames : Registered(S)
    /\ HistIdle
    /\ MfpIdle
    /\ MsgIdle
    /\ ChatIdle
    /\ WireIdle
    /\ MhaIdle
    /\ ListIdle
    /\ FlowIdle

\* what call_tools leaves alone
CallToolsOthers == <<tools, entries, calls, registry_log,
                     histVars, mfpVars, chatVars, wireVars, mhaVars, listVars, msgVars, flowVars>>

\* call_tools is called: an empty list returns Ok(vector![]) at once
CallTools(tool_calls) ==
    /\ call_tools.pc = "idle"
    /\ call_tools' =
          IF tool_calls = <<>>
          THEN [NoCallTools EXCEPT !.result = Some(Ok(<<>>))]
          ELSE [NoCallTools EXCEPT !.pc = "loop", !.tool_calls = tool_calls]
    /\ UNCHANGED CallToolsOthers

\* one round of the loop: the parameters become an AgentValue, call_tool
\* finds the tool and its body returns tool_resp
CallToolsRound(tool_resp) ==
    /\ call_tools.pc = "loop"
    /\ Len(call_tools.resp_messages) < Len(call_tools.tool_calls)
    /\ LET call == call_tools.tool_calls[Len(call_tools.resp_messages) + 1]
           args == from_serialize(call.parameters)
       IN  /\ tools[call.name] # 0
           /\ call_tools' = [call_tools EXCEPT
                 !.resp_messages = Append(@, tool_response(call, tool_resp)),
                 !.returned = Append(@, tool_resp),
                 !.invoked = Append(@, [name |-> call.name, args |-> args])]
    /\ UNCHANGED CallToolsOthers

\* one round of the loop fails: call_tool finds no tool of the name, or the
\* tool body returns an error; `?` returns it and resp_messages is dropped
CallToolsFail ==
    /\ call_tools.pc = "loop"
    /\ Len(call_tools.resp_messages) < Len(call_tools.tool_calls)
    /\ LET call == call_tools.tool_calls[Len(call_tools.resp_messages) + 1]
       IN  call_tools' = [call_tools EXCEPT
              !.pc = "idle",
              !.invoked = IF tools[call.name] = 0 THEN @
                          ELSE Append(@, [name |-> call.name,
                                          args |-> from_serialize(call.parameters)]),
              !.result = Some(IF tools[call.name] = 0
                              THEN Err(Other("Tool '" \o call.name \o "' not found"))
                              ELSE Err(Other("tool failed")))]
    /\ UNCHANGED CallToolsOthers

\* the loop is over: Ok(resp_messages.into())
CallToolsReturn ==
    /\ call_tools.pc = "loop"
    /\ Len(call_tools.resp_messages) = Len(call_tools.tool_calls)
    /\ call_tools' = [call_tools EXCEPT
          !.pc = "idle", !.result = Some(Ok(call_tools.resp_messages))]
    /\ UNCHANGED CallToolsOthers

NextCallTools ==
    \/ \E tool_calls \in CallBatches : CallTools(tool_calls)
    \/ \E tool_resp \in ToolValues : CallToolsRound(tool_resp)
    \/ CallToolsFail
    \/ CallToolsReturn
    \/ \E n \in ToolNames : UnregisterTool(n)

SpecCallTools == InitCallTools /\ [][NextCallTools]_vars

\* the JSON text of the values tools return
Serialized(tool_resp) ==
    CASE tool_resp = unit -> "null"
      [] tool_resp = string("12:00") -> "\"12:00\""
      [] tool_resp = object([temp |-> string("20")]) -> "{\"temp\":\"20\"}"

\* C28: when every call succeeds, call_tools returns exactly one tool-role
\* message per ToolCall, in the order of the calls, each with tool_name equal
\* to the call's name and content equal to the serialized result of that
\* call; an empty call list returns an empty list and invokes nothing.
C28_OneToolMessagePerCall ==
    (call_tools.pc = "idle" /\ call_tools.result # None) =>
        LET tool_calls == call_tools.tool_calls
            result == call_tools.result[1]
        IN  /\ Len(call_tools.returned) = Len(tool_calls) =>
                /\ result.ok
                /\ Len(result.value) = Len(tool_calls)
                /\ \A i \in 1..Len(tool_calls) :
                      /\ result.value[i].role = "tool"
                      /\ result.value[i].tool_name = Some(tool_calls[i].name)
                      /\ result.value[i].content = Serialized(call_tools.returned[i])
                /\ [i \in 1..Len(tool_calls) |-> call_tools.invoked[i].name]
                      = [i \in 1..Len(tool_calls) |-> tool_calls[i].name]
            /\ tool_calls = <<>> =>
                /\ result = Ok(<<>>)
                /\ call_tools.invoked = <<>>

\* two calls of different tools succeeded, the first with a string
C28_Witness ==
    /\ call_tools.pc = "idle"
    /\ call_tools.result # None
    /\ call_tools.result[1].ok
    /\ Len(call_tools.tool_calls) = MaxCalls
    /\ call_tools.tool_calls[1].name = "get_time"
    /\ call_tools.tool_calls[2].name = "get_weather"
    /\ call_tools.result[1].value[1] = ToolMessage("get_time", "\"12:00\"")
    /\ call_tools.result[1].value[2].tool_name = Some("get_weather")

----------------------------------------------------------------------------
(* SpecFlow: the Stream Tool agent and call_tool invocations of its tool      *)
(* (tool.rs).  The flow between tool_in and tool_out answers an emitted       *)
(* argument value at most once, at any later time; the value it puts on       *)
(* tool_out carries the context of the arguments.                             *)

InitFlow ==
    /\ \E name \in ToolNames : FlowNew(name)
    /\ ToolIdle
    /\ HistIdle
    /\ MfpIdle
    /\ MsgIdle
    /\ ChatIdle
    /\ WireIdle
    /\ MhaIdle
    /\ ListIdle

\* what no step of the agent or of an invocation touches
FlowOthers == <<calls, registry_log, call_tools,
                histVars, mfpVars, chatVars, wireVars, mhaVars, listVars, msgVars>>

\* the invocation's ToolEntry mutex is released when call_tool returns, and
\* so is the agent's lock were the guard still held; the receiver and the
\* Arc of the tool go with the call's frame
returned(i, result) ==
    /\ flow_calls' = [flow_calls EXCEPT ![i] =
          [@ EXCEPT !.pc = "done", !.tool = 0, !.chan = "none", !.value = None,
                    !.result = Some(result)]]
    /\ entries' = [entries EXCEPT ![flow_calls[i].tool].holder = 0]
    /\ flow_agent' = [flow_agent EXCEPT !.lock = IF @ = i THEN 0 ELSE @]
    /\ UNCHANGED <<tools, tool_in, FlowOthers>>

\* StreamToolAgent::configs_changed: self.name follows the config; the
\* registered tool is left as it is
FlowConfigsChanged(name) ==
    /\ flow_agent.lock = 0
    /\ name # flow_agent.name
    /\ flow_agent' = [flow_agent EXCEPT !.name = name]
    /\ UNCHANGED <<tools, entries, flow_calls, tool_in, FlowOthers>>

\* StreamToolAgent::start: register_tool(StreamTool::new(self.name, ..))
FlowStarted ==
    /\ flow_agent.lock = 0
    /\ ~flow_agent.running
    /\ Len(entries) < MaxFlowStarts
    /\ entries' = Append(entries, [name |-> flow_agent.name, holder |-> 0])
    /\ tools' = [tools EXCEPT ![flow_agent.name] = Len(entries) + 1]
    /\ flow_agent' = [flow_agent EXCEPT !.running = TRUE]
    /\ UNCHANGED <<flow_calls, tool_in, FlowOthers>>

\* StreamToolAgent::stop: unregister_tool(&self.name), then pending.clear(),
\* which drops every sender in the table
FlowStop ==
    /\ flow_agent.lock = 0
    /\ flow_agent.running
    /\ tools' = [tools EXCEPT ![flow_agent.name] = 0]
    /\ flow_agent' = [flow_agent EXCEPT !.running = FALSE, !.stopped = TRUE,
                                        !.pending = [k \in CtxIds |-> 0]]
    /\ flow_calls' = [i \in FlowCallers |->
                        IF flow_calls[i].pc = "waiting"
                              /\ \E k \in CtxIds : flow_agent.pending[k] = i
                        THEN [flow_calls[i] EXCEPT !.chan = "dropped"]
                        ELSE flow_calls[i]]
    /\ UNCHANGED <<entries, tool_in, FlowOthers>>

\* StreamToolAgent::process: a value arrives on tool_out in the context of
\* the arguments e; the slot of that context, if any, is removed and the value
\* sent to its sender's receiver (lost when the receiver is gone)
FlowProcess(e) ==
    /\ flow_agent.lock = 0
    /\ e \in tool_in
    /\ tool_in' = tool_in \ {e}
    /\ LET owner == flow_agent.pending[e.ctx]
       IN  IF owner = 0
           THEN UNCHANGED <<flow_agent, flow_calls>>
           ELSE /\ flow_agent' = [flow_agent EXCEPT !.pending[e.ctx] = 0]
                /\ flow_calls' = [flow_calls EXCEPT ![owner] =
                      IF @.pc = "waiting"
                      THEN [@ EXCEPT !.chan = "sent", !.value = Some([for |-> e.origin])]
                      ELSE @]
    /\ UNCHANGED <<tools, entries, FlowOthers>>

\* call_tool, to the lookup; the invocations are numbered in the order they
\* are made, and the contexts in the order they are first used
FlowLookup(i, ctx, n) ==
    /\ flow_calls[i].pc = "idle"
    /\ \A j \in 1..(i - 1) : flow_calls[j].pc # "idle"
    /\ ctx <= i
    /\ flow_calls' = [flow_calls EXCEPT ![i] =
          IF tools[n] = 0
          THEN [@ EXCEPT !.pc = "done", !.ctx = ctx,
                         !.result = Some(Err(Other("Tool '" \o n \o "' not found")))]
          ELSE [@ EXCEPT !.pc = "locking", !.ctx = ctx, !.tool = tools[n]]]
    /\ UNCHANGED <<tools, entries, flow_agent, tool_in, FlowOthers>>

\* call_tool: tool.lock().await
FlowLock(i) ==
    /\ flow_calls[i].pc = "locking"
    /\ entries[flow_calls[i].tool].holder = 0
    /\ entries' = [entries EXCEPT ![flow_calls[i].tool].holder = i]
    /\ flow_calls' = [flow_calls EXCEPT ![i].pc = "body"]
    /\ UNCHANGED <<tools, flow_agent, tool_in, FlowOthers>>

\* the invocation's slot put in the table: the sender that was under the key
\* is dropped, the arguments go out on tool_in
start_tool_call(i, lock) ==
    LET ctx == flow_calls[i].ctx
        before == flow_agent.pending[ctx]
    IN  /\ flow_agent' = [flow_agent EXCEPT !.pending[ctx] = i, !.lock = lock]
        /\ flow_calls' = [j \in FlowCallers |->
              IF j = i THEN [flow_calls[j] EXCEPT !.pc = "waiting", !.chan = "open"]
              ELSE IF j = before /\ flow_calls[j].pc = "waiting"
              THEN [flow_calls[j] EXCEPT !.chan = "dropped"]
              ELSE flow_calls[j]]
        /\ tool_in' = tool_in \cup {[ctx |-> ctx, origin |-> i]}
        /\ UNCHANGED <<tools, entries, FlowOthers>>

\* a tool_call that keeps the agent's guard while it waits
FlowStart_keep_guard(i) ==
    /\ flow_calls[i].pc = "body"
    /\ flow_agent.lock = 0
    /\ start_tool_call(i, i)

\* StreamTool::tool_call, the block under the agent's lock: start_tool_call
\* inserts the sender under ctx.id() and emits the arguments; the guard is
\* dropped at the end of the block
FlowStart(i) ==
    /\ flow_calls[i].pc = "body"
    /\ flow_agent.lock = 0
    /\ start_tool_call(i, 0)

\* StreamTool::tool_call: the receiver yields the value
FlowRecv(i) ==
    /\ flow_calls[i].pc = "waiting"
    /\ flow_calls[i].chan = "sent"
    /\ returned(i, Ok(flow_calls[i].value[1]))

\* StreamTool::tool_call: the sender was dropped
FlowDropped(i) ==
    /\ flow_calls[i].pc = "waiting"
    /\ flow_calls[i].chan = "dropped"
    /\ returned(i, Err(Other("tool_out dropped")))

\* a timeout that takes the invocation's slot out of the table
FlowTimeout_clears_slot(i) ==
    /\ flow_calls[i].pc = "waiting"
    /\ flow_calls[i].chan = "open"
    /\ flow_calls' = [flow_calls EXCEPT ![i] =
          [@ EXCEPT !.pc = "done", !.tool = 0, !.chan = "none", !.value = None,
                    !.result = Some(Err(Other("tool_call timed out")))]]
    /\ entries' = [entries EXCEPT ![flow_calls[i].tool].holder = 0]
    /\ flow_agent' = [flow_agent EXCEPT !.pending[flow_calls[i].ctx] = 0]
    /\ UNCHANGED <<tools, tool_in, FlowOthers>>

\* StreamTool::tool_call: the 60 seconds pass with the channel empty
FlowTimeout(i) ==
    /\ flow_calls[i].pc = "waiting"
    /\ flow_calls[i].chan = "open"
    /\ returned(i, Err(Other("tool_call timed out")))

NextFlow ==
    \/ \E name \in ToolNames : FlowConfigsChanged(name)
    \/ FlowStarted
    \/ FlowStop
    \/ \E e \in tool_in : FlowProcess(e)
    \/ \E i \in FlowCallers, ctx \in CtxIds, n \in ToolNames : FlowLookup(i, ctx, n)
    \/ \E i \in FlowCallers : FlowLock(i)
    \/ \E i \in FlowCallers : FlowStart(i)
    \/ \E i \in FlowCallers : FlowRecv(i)
    \/ \E i \in FlowCallers : FlowDropped(i)
    \/ \E i \in FlowCallers : FlowTimeout(i)

SpecFlow == InitFlow /\ [][NextFlow]_vars

\* call_tool returned the timeout error to invocation i
TimedOut(i) == flow_calls[i].result = Some(Err(Other("tool_call timed out")))

\* C33: when the wait of an in-process flow-tool call times out, the call
\* fails with a timeout error and its pending-call slot stays in the pending
\* table until a value for that slot's key arrives on tool_out or the agent
\* stops.
C33_TimeoutLeavesSlot ==
    /\ [][\A i \in FlowCallers :
            (flow_calls[i].pc = "waiting" /\ flow_calls'[i].pc = "done"
                /\ flow_calls[i].chan = "open") =>
                /\ flow_calls'[i].result = Some(Err(Other("tool_call timed out")))
                /\ flow_agent'.pending[flow_calls[i].ctx] = i]_vars
    /\ [][\A key \in CtxIds :
            (flow_agent.pending[key] # 0 /\ flow_agent'.pending[key] = 0) =>
                \/ \E e \in tool_in : e.ctx = key /\ e \notin tool_in'
                \/ flow_agent.running /\ ~flow_agent'.running]_vars

\* the first invocation timed out and its slot is still in the table after
\* the second, made in another context, got its value
C33_Witness ==
    /\ TimedOut(1)
    /\ flow_agent.pending[flow_calls[1].ctx] = 1
    /\ flow_agent.running
    /\ flow_calls[2].ctx # flow_calls[1].ctx
    /\ flow_calls[2].result = Some(Ok([for |-> 2]))

\* the agent stops on this step
Stops == flow_agent.running /\ ~flow_agent'.running

\* invocation i waits on a slot of the table
WaitsOnSlot(i) ==
    /\ flow_calls[i].pc = "waiting"
    /\ flow_calls[i].chan = "open"
    /\ flow_agent.pending[flow_calls[i].ctx] = i

\* C32: when the in-process flow-tool agent stops, the tool it registered is
\* removed from the registry and every pending-call slot is removed, so that
\* every invocation still waiting on a slot finds its channel dropped and
\* returns an error without waiting for the timeout.
C32_StopRemovesToolAndSlots ==
    [][Stops =>
          /\ \A n \in ToolNames : tools'[n] = 0
          /\ \A key \in CtxIds : flow_agent'.pending[key] = 0
          /\ \A i \in FlowCallers :
                WaitsOnSlot(i) => flow_calls'[i].chan = "dropped"]_vars

\* the part of C32 about the slots alone: a stop empties the table and drops
\* the channel of every invocation that waits on a slot
StopDropsSlots ==
    [][Stops =>
          /\ \A key \in CtxIds : flow_agent'.pending[key] = 0
          /\ \A i \in FlowCallers :
                WaitsOnSlot(i) => flow_calls'[i].chan = "dropped"]_vars

\* the value invocation i holds: the one its receiver took, or the one sent
\* to it and not taken yet
Delivered(i) ==
    IF flow_calls[i].chan = "sent" THEN flow_calls[i].value
    ELSE IF flow_calls[i].result # None /\ flow_calls[i].result[1].ok
    THEN Some(flow_calls[i].result[1].value)
    ELSE None

\* C35: a value arriving on tool_out is delivered only to the invocation
\* whose arguments were emitted for that slot and which is still waiting: an
\* invocation gets the value produced for its own arguments, and a result
\* that arrives after its invocation timed out is never delivered to a later
\* invocation.
C35_DeliveredToItsInvocation ==
    \A i \in FlowCallers :
        Delivered(i) # None => Delivered(i)[1].for = i

\* the part of C35 that rests on the oneshot channel and the removal of the
\* slot: a value goes to an invocation that is waiting with nothing received,
\* the slot it came through is removed on that step, and a value once
\* received is the invocation's result
OneResultPerSlot ==
    [][\A i \in FlowCallers :
          /\ (Delivered(i) = None /\ Delivered(i)' # None) =>
                /\ flow_calls[i].pc = "waiting"
                /\ flow_agent.pending[flow_calls[i].ctx] = i
                /\ flow_agent'.pending[flow_calls[i].ctx] = 0
          /\ Delivered(i) # None => Delivered(i)' = Delivered(i)]_vars

\* the steps of invocation i that the runtime takes when they can be taken:
\* the two mutexes are granted when free, a ready receiver is polled and the
\* timer fires
FlowAdvance(i) ==
    FlowLock(i) \/ FlowStart(i) \/ FlowRecv(i) \/ FlowDropped(i) \/ FlowTimeout(i)

\* the two invocations of the termination claim: one that holds the lock of
\* the tool and one queued behind it
QueuedPair == {1, 2}

\* NextFlow with the invocations of QueuedPair
NextFlowLive ==
    \/ \E name \in ToolNames : FlowConfigsChanged(name)
    \/ FlowStarted
    \/ FlowStop
    \/ \E e \in tool_in : FlowProcess(e)
    \/ \E i \in QueuedPair, ctx \in CtxIds, n \in ToolNames : FlowLookup(i, ctx, n)
    \/ \E i \in QueuedPair : FlowLock(i)
    \/ \E i \in QueuedPair : FlowStart(i)
    \/ \E i \in QueuedPair : FlowRecv(i)
    \/ \E i \in QueuedPair : FlowDropped(i)
    \/ \E i \in QueuedPair : FlowTimeout(i)

SpecFlowLive ==
    InitFlow /\ [][NextFlowLive]_vars /\ \A i \in QueuedPair : WF_vars(FlowAdvance(i))

\* call_tool found no tool of the name and returned at once
NotFound(i) ==
    \E n \in ToolNames :
        flow_calls[i].result = Some(Err(Other("Tool '" \o n \o "' not found")))

\* what call_tool returns for an invocation that found the flow tool
FlowOutcome(i) ==
    LET r == flow_calls[i].result[1]
    IN  \/ r.ok
        \/ r = Err(Other("tool_call timed out"))
        \/ r = Err(Other("tool_out dropped")) /\ flow_agent.stopped

\* C39: every call_tool invocation that found the in-process flow tool
\* eventually returns, with a value sent on tool_out under its key, with the
\* timeout error, or with the dropped-channel error after the owning agent
\* stopped; while it waits it holds no lock of the agent, so delivery and stop
\* can run; an invocation queued on the per-tool lock eventually acquires it.
C39_EveryCallReturns ==
    /\ \A i \in FlowCallers :
          (flow_calls[i].pc = "locking") ~> (flow_calls[i].pc = "body")
    /\ \A i \in FlowCallers :
          (flow_calls[i].pc = "body") ~> (flow_calls[i].pc = "done")
    /\ [](\A i \in FlowCallers :
            /\ flow_calls[i].pc = "waiting" => flow_agent.lock = 0
            /\ (flow_calls[i].pc = "done" /\ ~NotFound(i)) => FlowOutcome(i))

\* the second invocation queued on the lock of the tool the first one held,
\* got it, and both returned: one with the timeout error, one with a value
C39_Witness ==
    /\ flow_calls[1].pc = "done" /\ flow_calls[2].pc = "done"
    /\ TimedOut(1)
    /\ flow_calls[2].result # None /\ flow_calls[2].result[1].ok
    /\ flow_calls[1].ctx = flow_calls[2].ctx

====
